---- MODULE Spec2Model ----
(***************************************************************************)
(* FINOVA financial-advice engine: the health scorer, the expense          *)
(* analyzer and the validator of utils.py, the sentiment and intent        *)
(* classifiers and the response generator of enhanced_app.py, and the      *)
(* Streamlit session (profile, ledger, transcript) driven by main().       *)
(*                                                                         *)
(* Numbers.  Python floats are modelled as exact rationals [n, d], d > 0,  *)
(* kept in lowest terms.  Money entered in the profile form is integral    *)
(* (the number_input widgets of the form have integer bounds and steps).   *)
(* Uncaught exceptions are modelled by a "raised" field naming the         *)
(* exception class ("" when the call returns).                             *)
(***************************************************************************)
EXTENDS Integers, Sequences, FiniteSets, TLC

VARIABLES
    user_profile,   \* chatbot.user_profile: None or Some(profile)
    expenses,       \* st.session_state.expenses: the dict's entries in insertion order
    messages,       \* st.session_state.messages: transcript
    last,           \* what the last run of main() did
    text,           \* the text handed to a classifier
    remote,         \* the outcome of the remote classifier call
    health,         \* result of generate_financial_health_score in the last call or run
    sentiment,      \* result of analyze_sentiment in the last call or run
    intent,         \* result of classify_intent in the last call or run
    reply,          \* result of generate_personalized_response in the last call or run
    analysis,       \* result of analyze_spending_pattern in the last call or run
    report,         \* result of generate_monthly_report in the last call or run
    pc              \* position of the driver of a function-level specification

vars == <<user_profile, expenses, messages, last, text, remote, health,
          sentiment, intent, reply, analysis, report, pc>>

-----------------------------------------------------------------------------
(* Bounds of the explored inputs *)
MaxIncomeSteps == 3
MaxExpenseSteps == 7
MaxSavingsSteps == 11
MaxGoals == 6

-----------------------------------------------------------------------------
(* Exact rational arithmetic standing for Python float arithmetic *)

Abs(x) == IF x < 0 THEN -x ELSE x

RECURSIVE Gcd(_, _)
Gcd(a, b) == IF b = 0 THEN a ELSE Gcd(b, a % b)

\* the rational n/d in lowest terms with a positive denominator (d # 0)
Frac(n, d) ==
    LET s == IF d < 0 THEN -1 ELSE 1
        g == Gcd(Abs(n), Abs(d))
    IN  [n |-> (s * n) \div g, d |-> (s * d) \div g]

Num(i) == [n |-> i, d |-> 1]
RAdd(a, b) == Frac(a.n * b.d + b.n * a.d, a.d * b.d)
RSub(a, b) == Frac(a.n * b.d - b.n * a.d, a.d * b.d)
RMul(a, b) == Frac(a.n * b.n, a.d * b.d)
RLe(a, b) == a.n * b.d <= b.n * a.d
RLt(a, b) == a.n * b.d < b.n * a.d
RGe(a, b) == RLe(b, a)
RGt(a, b) == RLt(b, a)
REq(a, b) == a.n * b.d = b.n * a.d
RMin(a, b) == IF RLe(a, b) THEN a ELSE b
RMax(a, b) == IF RGe(a, b) THEN a ELSE b

\* Python's a / b: ZeroDivisionError when b is zero
RDiv(a, b) ==
    IF b.n = 0 THEN [raised |-> "ZeroDivisionError", value |-> Num(0)]
    ELSE [raised |-> "", value |-> Frac(a.n * b.d, a.d * b.n)]

\* rounding to the nearest 1/scale, ties to even: round(x, 1) with scale 10,
\* the ".1f" and ",.2f" formats with scale 10 and 100
RoundTo(a, scale) ==
    LET t == scale * a.n
        q == t \div a.d
        r == t % a.d
    IN  IF 2 * r < a.d THEN Frac(q, scale)
        ELSE IF 2 * r > a.d THEN Frac(q + 1, scale)
        ELSE IF q % 2 = 0 THEN Frac(q, scale) ELSE Frac(q + 1, scale)

RoundTenths(a) == RoundTo(a, 10)
Money(a) == RoundTo(a, 100)

-----------------------------------------------------------------------------
(* UserProfile (dataclass); created_at is a timestamp no rule reads.       *)
(* risk_tolerance and the goals are character sequences (the rules call   *)
(* lower() on them); name, occupation and user_type are only compared.     *)

None == <<>>
Some(p) == <<p>>
IsNone(o) == o = <<>>
The(o) == o[1]

\* the options of the "Financial Goals" multiselect, as character sequences
GoalOptions ==
    << <<"E", "m", "e", "r", "g", "e", "n", "c", "y", " ", "F", "u", "n", "d">>,
       <<"B", "u", "y", " ", "a", " ", "H", "o", "u", "s", "e">>,
       <<"R", "e", "t", "i", "r", "e", "m", "e", "n", "t">>,
       <<"P", "a", "y", " ", "o", "f", "f", " ", "D", "e", "b", "t">>,
       <<"I", "n", "v", "e", "s", "t", "m", "e", "n", "t", " ", "G", "r", "o", "w", "t", "h">>,
       <<"E", "d", "u", "c", "a", "t", "i", "o", "n">>,
       <<"T", "r", "a", "v", "e", "l">>,
       <<"S", "t", "a", "r", "t", " ", "B", "u", "s", "i", "n", "e", "s", "s">> >>

\* the options of the "Risk Tolerance" selectbox, as character sequences
Risk_conservative == <<"c", "o", "n", "s", "e", "r", "v", "a", "t", "i", "v", "e">>
Risk_moderate == <<"m", "o", "d", "e", "r", "a", "t", "e">>
Risk_aggressive == <<"a", "g", "g", "r", "e", "s", "s", "i", "v", "e">>

UserProfile(name, age, income, occupation, goals, risk, savings, monthly, utype) ==
    [name |-> name, age |-> age, income |-> income, occupation |-> occupation,
     financial_goals |-> goals, risk_tolerance |-> risk,
     savings_amount |-> savings, monthly_expenses |-> monthly, user_type |-> utype]

-----------------------------------------------------------------------------
(* ReportGenerator._get_grade *)
_get_grade(score) ==
    IF RGe(score, Num(90)) THEN "A"
    ELSE IF RGe(score, Num(80)) THEN "B"
    ELSE IF RGe(score, Num(70)) THEN "C"
    ELSE IF RGe(score, Num(60)) THEN "D"
    ELSE "F"

(* The four components of generate_financial_health_score *)

Returned(v) == [raised |-> "", value |-> v]

\* the first exception raised by a sequence of evaluated steps ("" if none)
RECURSIVE FirstRaised(_)
FirstRaised(steps) ==
    IF steps = <<>> THEN ""
    ELSE IF Head(steps) # "" THEN Head(steps)
    ELSE FirstRaised(Tail(steps))

\* variant: the division without its  if monthly_expenses > 0  guard
EmergencyMonths_Unguarded(p) ==
    RDiv(Num(p.savings_amount), Num(p.monthly_expenses))

\* emergency_months = savings_amount / monthly_expenses if monthly_expenses > 0 else 0
EmergencyMonths(p) ==
    IF p.monthly_expenses > 0
    THEN RDiv(Num(p.savings_amount), Num(p.monthly_expenses))
    ELSE Returned(Num(0))

\* variant: the emergency-fund component without its cap of 25
EmergencyScore_Uncapped(p) ==
    RMul(RMul(EmergencyMonths(p).value, Frac(1, 6)), Num(25))

\* min(emergency_months / 6 * 25, 25)
EmergencyScore(p) ==
    RMin(RMul(RMul(EmergencyMonths(p).value, Frac(1, 6)), Num(25)), Num(25))

EmergencyFeedback(p) ==
    IF RGe(EmergencyMonths(p).value, Num(6)) THEN "Excellent emergency fund coverage"
    ELSE IF RGe(EmergencyMonths(p).value, Num(3))
         THEN "Good emergency fund, consider building to 6 months"
    ELSE "Build your emergency fund (aim for 6 months of expenses)"

\* monthly_income = user_profile.income / 12
MonthlyIncome(p) == Frac(p.income, 12)

\* monthly_surplus = monthly_income - user_profile.monthly_expenses
MonthlySurplus(p) == RSub(MonthlyIncome(p), Num(p.monthly_expenses))

\* savings_rate = monthly_surplus / monthly_income if monthly_income > 0 else 0
SavingsRate(p) ==
    IF RGt(MonthlyIncome(p), Num(0))
    THEN RDiv(MonthlySurplus(p), MonthlyIncome(p))
    ELSE Returned(Num(0))

\* max(min(savings_rate / 0.20 * 25, 25), 0)
SavingsScore(p) ==
    RMax(RMin(RMul(RMul(SavingsRate(p).value, Num(5)), Num(25)), Num(25)), Num(0))

SavingsFeedback(p) ==
    IF RGe(SavingsRate(p).value, Frac(1, 5)) THEN "Great savings rate!"
    ELSE IF RGe(SavingsRate(p).value, Frac(1, 10))
         THEN "Good savings rate, try to increase if possible"
    ELSE "Focus on increasing your savings rate"

\* expense_ratio = monthly_expenses / monthly_income if monthly_income > 0 else 1
ExpenseRatio(p) ==
    IF RGt(MonthlyIncome(p), Num(0))
    THEN RDiv(Num(p.monthly_expenses), MonthlyIncome(p))
    ELSE Returned(Num(1))

\* max(25 - (expense_ratio - 0.8) * 100, 0)
BudgetScore(p) ==
    RMax(RSub(Num(25), RMul(RSub(ExpenseRatio(p).value, Frac(4, 5)), Num(100))), Num(0))

Min(a, b) == IF a <= b THEN a ELSE b

\* min(len(financial_goals) * 5, 25) when there are goals, nothing otherwise
GoalScore(p) ==
    IF Len(p.financial_goals) > 0 THEN Num(Min(Len(p.financial_goals) * 5, 25))
    ELSE Num(0)

GoalFeedback(p) ==
    IF Len(p.financial_goals) > 0 THEN "You have N financial goals defined"
    ELSE "Consider setting specific financial goals"

\* score after the four  score += ...  statements
RawScore(p) ==
    RAdd(RAdd(RAdd(EmergencyScore(p), SavingsScore(p)), BudgetScore(p)), GoalScore(p))

NoHealth == [raised |-> "", score |-> Num(0), grade |-> "", feedback |-> <<>>]

\* variant: the budget-management component also emits a feedback string
generate_financial_health_score_BudgetFeedback(profile, ledger) ==
    IF IsNone(profile)
    THEN [raised |-> "", score |-> RoundTenths(Num(0)), grade |-> _get_grade(Num(0)),
          feedback |-> <<>>]
    ELSE LET p == The(profile)
             exc == FirstRaised(<<EmergencyMonths(p).raised, SavingsRate(p).raised,
                                  ExpenseRatio(p).raised>>)
         IN  IF exc # "" THEN [NoHealth EXCEPT !.raised = exc]
             ELSE [raised |-> "",
                   score |-> RoundTenths(RawScore(p)),
                   grade |-> _get_grade(RawScore(p)),
                   feedback |-> <<EmergencyFeedback(p), SavingsFeedback(p),
                                  "Keep your expenses below 80% of income",
                                  GoalFeedback(p)>>]

(* ReportGenerator.generate_financial_health_score(user_profile, expenses): *)
(* the expenses argument is accepted and never read.  The grade is taken    *)
(* from the unrounded score, the score field is rounded to one decimal.     *)
generate_financial_health_score(profile, ledger) ==
    IF IsNone(profile)
    THEN [raised |-> "", score |-> RoundTenths(Num(0)), grade |-> _get_grade(Num(0)),
          feedback |-> <<>>]
    ELSE LET p == The(profile)
             exc == FirstRaised(<<EmergencyMonths(p).raised, SavingsRate(p).raised,
                                  ExpenseRatio(p).raised>>)
         IN  IF exc # "" THEN [NoHealth EXCEPT !.raised = exc]
             ELSE [raised |-> "",
                   score |-> RoundTenths(RawScore(p)),
                   grade |-> _get_grade(RawScore(p)),
                   feedback |-> <<EmergencyFeedback(p), SavingsFeedback(p),
                                  GoalFeedback(p)>>]

-----------------------------------------------------------------------------
(* Inputs of the function-level specifications *)

Incomes == {12000 * k : k \in 0..MaxIncomeSteps}
MonthlyExpenses == {300 * k : k \in 0..MaxExpenseSteps}
\* savings_amount in steps of the "Current Savings" input (step=500)
Savings == {500 * k : k \in 0..MaxSavingsSteps}
GoalLists == {SubSeq(GoalOptions, 1, g) : g \in 0..Min(MaxGoals, Len(GoalOptions))}

\* config.EXPENSE_CATEGORIES, as character sequences
EXPENSE_CATEGORIES ==
    << <<"H", "o", "u", "s", "i", "n", "g">>,
       <<"F", "o", "o", "d">>,
       <<"T", "r", "a", "n", "s", "p", "o", "r", "t", "a", "t", "i", "o", "n">>,
       <<"H", "e", "a", "l", "t", "h", "c", "a", "r", "e">>,
       <<"I", "n", "s", "u", "r", "a", "n", "c", "e">>,
       <<"E", "n", "t", "e", "r", "t", "a", "i", "n", "m", "e", "n", "t">>,
       <<"S", "h", "o", "p", "p", "i", "n", "g">>,
       <<"E", "d", "u", "c", "a", "t", "i", "o", "n">>,
       <<"D", "e", "b", "t", " ", "P", "a", "y", "m", "e", "n", "t", "s">>,
       <<"S", "a", "v", "i", "n", "g", "s">>,
       <<"O", "t", "h", "e", "r">> >>

\* an expense ledger: the entries of the dict in insertion order
Entry(c, a) == [category |-> c, amount |-> a]
ScoreLedgers == {<<>>, <<Entry(EXPENSE_CATEGORIES[2], 600)>>}

\* the outcome of a remote call: its kind and, for a 200 answer, the decoded body
Body(top, n, first, items) == [top |-> top, n |-> n, first |-> first, items |-> items]
EmptyDict == Body("dict", 0, "none", <<>>)
Outcome(kind, body) == [kind |-> kind, body |-> body]
NoRemote == Outcome("none", EmptyDict)
\* the result of analyze_sentiment and the requests.post calls it made
NoSentiment == [raised |-> "", value |-> "", requests |-> <<>>]

\* what the last run of main() did: the handler, the messages it showed and
\* the form data it was given
Last(op, errors, data) == [op |-> op, errors |-> errors, data |-> data]
FormData(name, age, income, savings, monthly) ==
    [name |-> name, age |-> age, income |-> income, savings_amount |-> savings,
     monthly_expenses |-> monthly]
NoData == FormData("", 0, 0, 0, 0)
NoLast == Last("init", <<>>, NoData)

NoAnalysis ==
    [raised |-> "", empty |-> TRUE, total_expenses |-> 0, highest_category |-> <<>>,
     lowest_category |-> <<>>, category_percentages |-> <<>>, recommendations |-> <<>>]
NoReply == [raised |-> "", calls |-> <<>>, parts |-> <<>>]
NoReport == [raised |-> "", parts |-> <<>>]

-----------------------------------------------------------------------------
(* SpecScore: generate_financial_health_score applied to the profiles of    *)
(* the profile form (integral money, up to 8 goals) and a ledger.           *)

InitScore ==
    /\ \E i \in Incomes, e \in MonthlyExpenses, s \in Savings, g \in GoalLists :
         user_profile = Some(UserProfile("Ann", 30, i, "Other", g, Risk_moderate, s, e,
                                         "professional"))
    /\ expenses \in ScoreLedgers
    /\ messages = <<>>
    /\ last = NoLast
    /\ text = <<>>
    /\ remote = NoRemote
    /\ health = NoHealth
    /\ sentiment = NoSentiment
    /\ intent = ""
    /\ reply = NoReply
    /\ analysis = NoAnalysis
    /\ report = NoReport
    /\ pc = "start"

ScoreCall ==
    /\ pc = "start"
    /\ health' = generate_financial_health_score(user_profile, expenses)
    /\ pc' = "scored"
    /\ UNCHANGED <<user_profile, expenses, messages, last, text, remote,
                   sentiment, intent, reply, analysis, report>>

NextScore == ScoreCall

SpecScore == InitScore /\ [][NextScore]_vars

\* the profile handed to the scorer
P == The(user_profile)

-----------------------------------------------------------------------------
(* Claims about generate_financial_health_score (SpecScore) *)

EmergencyMessages ==
    {"Excellent emergency fund coverage",
     "Good emergency fund, consider building to 6 months",
     "Build your emergency fund (aim for 6 months of expenses)"}

\* C1: for every profile with income >= 0, monthly_expenses >= 0 and
\* savings_amount >= 0 the returned score lies in [0,100]: each of the four
\* sub-scores is at most 25 and their sum at most 100.
C1_ScoreWithin100 ==
    pc = "scored" =>
        /\ health.raised = ""
        /\ RGe(health.score, Num(0)) /\ RLe(health.score, Num(100))
        /\ RLe(EmergencyScore(P), Num(25)) /\ RLe(SavingsScore(P), Num(25))
        /\ RLe(BudgetScore(P), Num(25)) /\ RLe(GoalScore(P), Num(25))

C10_MonotoneInSavings ==
    pc = "scored" =>
        \A s2 \in Savings :
            s2 >= P.savings_amount =>
                LET h2 == generate_financial_health_score(
                              Some([P EXCEPT !.savings_amount = s2]), expenses)
                IN  /\ h2.raised = "" /\ health.raised = ""
                    /\ RGe(h2.score, health.score)
                    /\ (P.savings_amount >= 6 * P.monthly_expenses
                          => h2.score = health.score)

\* a profile below the cap that a larger savings_amount strictly improves
C10_Witness ==
    /\ pc = "scored" /\ P.monthly_expenses > 0
    /\ P.savings_amount > 0 /\ P.savings_amount < 6 * P.monthly_expenses
    /\ \E s2 \in Savings :
          /\ s2 >= 6 * P.monthly_expenses
          /\ RGt(generate_financial_health_score(
                     Some([P EXCEPT !.savings_amount = s2]), expenses).score,
                 health.score)

\* C11: in every result of generate_financial_health_score the grade field
\* agrees with the score field of the same result: A iff score >= 90, B iff
\* 80 <= score < 90, C iff 70 <= score < 80, D iff 60 <= score < 70, F iff
\* score < 60.
C11_GradeAgreesWithScore ==
    (pc = "scored" /\ health.raised = "") =>
        /\ (health.grade = "A") <=> RGe(health.score, Num(90))
        /\ (health.grade = "B") <=>
               (RGe(health.score, Num(80)) /\ RLt(health.score, Num(90)))
        /\ (health.grade = "C") <=>
               (RGe(health.score, Num(70)) /\ RLt(health.score, Num(80)))
        /\ (health.grade = "D") <=>
               (RGe(health.score, Num(60)) /\ RLt(health.score, Num(70)))
        /\ (health.grade = "F") <=> RLt(health.score, Num(60))

-----------------------------------------------------------------------------
(* Text.  A Python str is modelled as the sequence of its characters, so    *)
(* that lower(), the  in  substring test and concatenation are computed.    *)

UpperCase == <<"A","B","C","D","E","F","G","H","I","J","K","L","M",
               "N","O","P","Q","R","S","T","U","V","W","X","Y","Z">>
LowerCase == <<"a","b","c","d","e","f","g","h","i","j","k","l","m",
               "n","o","p","q","r","s","t","u","v","w","x","y","z">>

\* str.lower() on one character
LowerChar(c) ==
    IF \E i \in DOMAIN UpperCase : UpperCase[i] = c
    THEN LowerCase[CHOOSE i \in DOMAIN UpperCase : UpperCase[i] = c]
    ELSE c

\* str.lower()
Lower(t) == [i \in DOMAIN t |-> LowerChar(t[i])]

\* keyword in text
Contains(t, k) ==
    \E i \in 1..(Len(t) - Len(k) + 1) : SubSeq(t, i, i + Len(k) - 1) = k

\* sum(1 for word in words if word in text)
CountPresent(words, t) ==
    Cardinality({i \in DOMAIN words : Contains(t, words[i])})

(* EnhancedFinancialChatbot.classify_intent: the intent_patterns table, in *)
(* the insertion order of the dict literal                                *)
kw_budgeting ==
    << <<"b", "u", "d", "g", "e", "t">>,
       <<"e", "x", "p", "e", "n", "s", "e">>,
       <<"s", "p", "e", "n", "d">>,
       <<"c", "o", "s", "t">>,
       <<"m", "o", "n", "e", "y", " ", "m", "a", "n", "a", "g", "e", "m", "e", "n", "t">>,
       <<"t", "r", "a", "c", "k", " ", "s", "p", "e", "n", "d", "i", "n", "g">>,
       <<"m", "o", "n", "t", "h", "l", "y", " ", "b", "u", "d", "g", "e", "t">>,
       <<"e", "x", "p", "e", "n", "s", "e", " ", "t", "r", "a", "c", "k", "i", "n", "g">> >>
kw_investment ==
    << <<"i", "n", "v", "e", "s", "t">>,
       <<"s", "t", "o", "c", "k">>,
       <<"b", "o", "n", "d">>,
       <<"p", "o", "r", "t", "f", "o", "l", "i", "o">>,
       <<"r", "e", "t", "u", "r", "n">>,
       <<"m", "a", "r", "k", "e", "t">>,
       <<"m", "u", "t", "u", "a", "l", " ", "f", "u", "n", "d">>,
       <<"4", "0", "1", "k">>,
       <<"r", "e", "t", "i", "r", "e", "m", "e", "n", "t", " ", "a", "c", "c", "o", "u", "n", "t">>,
       <<"d", "i", "v", "i", "d", "e", "n", "d">> >>
kw_savings ==
    << <<"s", "a", "v", "e">>,
       <<"s", "a", "v", "i", "n", "g">>,
       <<"e", "m", "e", "r", "g", "e", "n", "c", "y", " ", "f", "u", "n", "d">>,
       <<"d", "e", "p", "o", "s", "i", "t">>,
       <<"s", "a", "v", "i", "n", "g", "s", " ", "a", "c", "c", "o", "u", "n", "t">>,
       <<"h", "i", "g", "h", " ", "y", "i", "e", "l", "d">>,
       <<"c", "d">>,
       <<"c", "e", "r", "t", "i", "f", "i", "c", "a", "t", "e", " ", "o", "f", " ", "d", "e", "p", "o", "s", "i", "t">> >>
kw_debt ==
    << <<"d", "e", "b", "t">>,
       <<"l", "o", "a", "n">>,
       <<"c", "r", "e", "d", "i", "t">>,
       <<"p", "a", "y", "m", "e", "n", "t">>,
       <<"o", "w", "e">>,
       <<"m", "o", "r", "t", "g", "a", "g", "e">>,
       <<"s", "t", "u", "d", "e", "n", "t", " ", "l", "o", "a", "n">>,
       <<"c", "r", "e", "d", "i", "t", " ", "c", "a", "r", "d">>,
       <<"r", "e", "f", "i", "n", "a", "n", "c", "e">> >>
kw_tax ==
    << <<"t", "a", "x">>,
       <<"d", "e", "d", "u", "c", "t", "i", "o", "n">>,
       <<"f", "i", "l", "i", "n", "g">>,
       <<"r", "e", "f", "u", "n", "d">>,
       <<"i", "r", "s">>,
       <<"t", "a", "x", " ", "r", "e", "t", "u", "r", "n">>,
       <<"w", "i", "t", "h", "h", "o", "l", "d", "i", "n", "g">>,
       <<"t", "a", "x", " ", "p", "l", "a", "n", "n", "i", "n", "g">> >>
kw_insurance ==
    << <<"i", "n", "s", "u", "r", "a", "n", "c", "e">>,
       <<"h", "e", "a", "l", "t", "h", " ", "i", "n", "s", "u", "r", "a", "n", "c", "e">>,
       <<"l", "i", "f", "e", " ", "i", "n", "s", "u", "r", "a", "n", "c", "e">>,
       <<"a", "u", "t", "o", " ", "i", "n", "s", "u", "r", "a", "n", "c", "e">>,
       <<"c", "o", "v", "e", "r", "a", "g", "e">>,
       <<"p", "r", "e", "m", "i", "u", "m">> >>
kw_retirement ==
    << <<"r", "e", "t", "i", "r", "e", "m", "e", "n", "t">>,
       <<"r", "e", "t", "i", "r", "e">>,
       <<"p", "e", "n", "s", "i", "o", "n">>,
       <<"4", "0", "1", "k">>,
       <<"i", "r", "a">>,
       <<"r", "e", "t", "i", "r", "e", "m", "e", "n", "t", " ", "p", "l", "a", "n", "n", "i", "n", "g">>,
       <<"s", "o", "c", "i", "a", "l", " ", "s", "e", "c", "u", "r", "i", "t", "y">> >>

intent_patterns ==
    << [intent |-> "budgeting", keywords |-> kw_budgeting],
       [intent |-> "investment", keywords |-> kw_investment],
       [intent |-> "savings", keywords |-> kw_savings],
       [intent |-> "debt", keywords |-> kw_debt],
       [intent |-> "tax", keywords |-> kw_tax],
       [intent |-> "insurance", keywords |-> kw_insurance],
       [intent |-> "retirement", keywords |-> kw_retirement] >>

(* EnhancedFinancialChatbot._simple_sentiment_analysis: the word lists *)
positive_words ==
    << <<"g", "o", "o", "d">>,
       <<"g", "r", "e", "a", "t">>,
       <<"e", "x", "c", "e", "l", "l", "e", "n", "t">>,
       <<"h", "a", "p", "p", "y">>,
       <<"s", "a", "t", "i", "s", "f", "i", "e", "d">>,
       <<"l", "o", "v", "e">>,
       <<"a", "m", "a", "z", "i", "n", "g">> >>
negative_words ==
    << <<"b", "a", "d">>,
       <<"t", "e", "r", "r", "i", "b", "l", "e">>,
       <<"a", "w", "f", "u", "l">>,
       <<"h", "a", "t", "e">>,
       <<"w", "o", "r", "r", "i", "e", "d">>,
       <<"c", "o", "n", "c", "e", "r", "n", "e", "d">>,
       <<"p", "r", "o", "b", "l", "e", "m">> >>

-----------------------------------------------------------------------------
(* EnhancedFinancialChatbot.classify_intent *)

\* intent_scores: the intents with a positive score, in table order
RECURSIVE intent_scores(_, _)
intent_scores(patterns, text_lower) ==
    IF patterns = <<>> THEN <<>>
    ELSE LET score == CountPresent(Head(patterns).keywords, text_lower)
             rest == intent_scores(Tail(patterns), text_lower)
         IN  IF score > 0
             THEN <<[intent |-> Head(patterns).intent, score |-> score]>> \o rest
             ELSE rest

\* variant: on a tie the later entry wins
RECURSIVE MaxByScore_LastWins(_, _)
MaxByScore_LastWins(entries, best) ==
    IF entries = <<>> THEN best
    ELSE IF Head(entries).score >= best.score
         THEN MaxByScore_LastWins(Tail(entries), Head(entries))
         ELSE MaxByScore_LastWins(Tail(entries), best)

\* max(intent_scores, key=intent_scores.get): the first entry, in iteration
\* order, that no other entry exceeds
RECURSIVE MaxByScore(_, _)
MaxByScore(entries, best) ==
    IF entries = <<>> THEN best
    ELSE IF Head(entries).score > best.score
         THEN MaxByScore(Tail(entries), Head(entries))
         ELSE MaxByScore(Tail(entries), best)

classify_intent(t) ==
    LET scores == intent_scores(intent_patterns, Lower(t))
    IN  IF scores # <<>> THEN MaxByScore(Tail(scores), Head(scores)).intent
        ELSE "general"

-----------------------------------------------------------------------------
(* SpecIntent: classify_intent applied to texts assembled from fragments    *)

MaxFragments == 2

IntentFragments ==
    { <<"s", "a", "v", "e">>,
      <<" ">>,
      <<"E", "m", "e", "r", "g", "e", "n", "c", "y", " ", "F", "u", "n", "d">>,
      <<"I", "N", "V", "E", "S", "T">>,
      <<"p", "o", "r", "t", "f", "o", "l", "i", "o">>,
      <<"4", "0", "1", "k">>,
      <<"t", "a", "x", " ", "r", "e", "t", "u", "r", "n">>,
      <<"r", "e", "t", "i", "r", "e", "m", "e", "n", "t", " ", "a", "c", "c", "o", "u", "n", "t">>,
      <<"B", "u", "d", "g", "e", "t">>,
      <<"c", "r", "e", "d", "i", "t", " ", "c", "a", "r", "d">>,
      <<"h", "e", "l", "l", "o">> }

\* the texts made of at most n fragments
RECURSIVE TextsOf(_, _)
TextsOf(fragments, n) ==
    IF n = 0 THEN {<<>>}
    ELSE LET shorter == TextsOf(fragments, n - 1)
         IN  shorter \cup {t \o f : t \in shorter, f \in fragments}


InitIntent ==
    /\ text \in TextsOf(IntentFragments, MaxFragments)
    /\ user_profile = None
    /\ expenses = <<>>
    /\ messages = <<>>
    /\ last = NoLast
    /\ remote = NoRemote
    /\ health = NoHealth
    /\ sentiment = NoSentiment
    /\ intent = ""
    /\ reply = NoReply
    /\ analysis = NoAnalysis
    /\ report = NoReport
    /\ pc = "start"

ClassifyCall ==
    /\ pc = "start"
    /\ intent' = classify_intent(text)
    /\ pc' = "classified"
    /\ UNCHANGED <<user_profile, expenses, messages, last, text, remote, health,
                   sentiment, reply, analysis, report>>

NextIntent == ClassifyCall

SpecIntent == InitIntent /\ [][NextIntent]_vars

\* the score of the k-th intent of the table on the lower-cased text
ScoreOf(k) == CountPresent(intent_patterns[k].keywords, Lower(text))

\* the keyword phrases of the whole table that occur in the lower-cased text
Matched ==
    UNION {{intent_patterns[k].keywords[j] : j \in
               {j \in DOMAIN intent_patterns[k].keywords :
                   Contains(Lower(text), intent_patterns[k].keywords[j])}} :
           k \in DOMAIN intent_patterns}

\* C6: classify_intent returns general when no keyword of any intent occurs
\* in the lower-cased text; otherwise the intent of the highest score, the
\* first in table order among the tied ones.  A text matching only "save" and
\* "emergency fund" is savings, one matching only "invest" and "portfolio" is
\* investment.
C6_HighestScoreFirstInTable ==
    pc = "classified" =>
        /\ (\A k \in DOMAIN intent_patterns : ScoreOf(k) = 0) => intent = "general"
        /\ (\E k \in DOMAIN intent_patterns : ScoreOf(k) > 0) =>
              \E k \in DOMAIN intent_patterns :
                  /\ intent = intent_patterns[k].intent
                  /\ ScoreOf(k) > 0
                  /\ \A j \in DOMAIN intent_patterns : ScoreOf(j) <= ScoreOf(k)
                  /\ \A j \in 1..(k - 1) : ScoreOf(j) < ScoreOf(k)
        /\ Matched = {<<"s", "a", "v", "e">>,
                      <<"e", "m", "e", "r", "g", "e", "n", "c", "y", " ", "f", "u", "n", "d">>}
              => intent = "savings"
        /\ Matched = {<<"i", "n", "v", "e", "s", "t">>,
                      <<"p", "o", "r", "t", "f", "o", "l", "i", "o">>}
              => intent = "investment"

\* a tie between investment and retirement ("401k"), resolved by table order
C6_Witness ==
    /\ pc = "classified"
    /\ ScoreOf(2) = 1 /\ ScoreOf(7) = 1
    /\ \A k \in DOMAIN intent_patterns : ScoreOf(k) <= 1
    /\ intent = "investment"

-----------------------------------------------------------------------------
(* The remote classifier.  An outcome of requests.post is its kind and, for *)
(* a 200 answer, the decoded JSON body: the type and length of the body,    *)
(* the type of its first element, and the items of that first element when  *)
(* it is a list.                                                            *)

\* an element of the inner list: a dict (with or without label / score keys)
\* or something that is not a dict
Item(type, has_label, label, has_score, score) ==
    [type |-> type, has_label |-> has_label, label |-> label,
     has_score |-> has_score, score |-> score]

(* EnhancedFinancialChatbot.call_huggingface_api: the dict or list returned *)
call_huggingface_api(outcome) ==
    IF outcome.kind = "status_200" THEN outcome.body   \* response.json()
    ELSE EmptyDict   \* 503, other status, Timeout, any other exception

\* x.get('score', 0)
ScoreKey(x) == IF x.has_score THEN x.score ELSE 0

\* max(sentiment_data, key=lambda x: x.get('score', 0)): the first item no
\* other item exceeds
RECURSIVE MaxByKey(_, _)
MaxByKey(items, best) ==
    IF items = <<>> THEN best
    ELSE IF ScoreKey(Head(items)) > ScoreKey(best)
         THEN MaxByKey(Tail(items), Head(items))
         ELSE MaxByKey(Tail(items), best)

\* label_mapping.get(label, label)
label_mapping(label) ==
    IF label = "LABEL_0" THEN "NEGATIVE"
    ELSE IF label = "LABEL_1" THEN "NEUTRAL"
    ELSE IF label = "LABEL_2" THEN "POSITIVE"
    ELSE label

(* EnhancedFinancialChatbot._simple_sentiment_analysis *)
\* the number of places of t at which k occurs
Occurrences(t, k) ==
    Cardinality({i \in 1..(Len(t) - Len(k) + 1) : SubSeq(t, i, i + Len(k) - 1) = k})

RECURSIVE SumOccurrences(_, _)
SumOccurrences(words, t) ==
    IF words = <<>> THEN 0
    ELSE Occurrences(t, Head(words)) + SumOccurrences(Tail(words), t)

\* variant: every occurrence of a word is counted
_simple_sentiment_analysis_Occurrences(t) ==
    LET positive_count == SumOccurrences(positive_words, Lower(t))
        negative_count == SumOccurrences(negative_words, Lower(t))
    IN  IF positive_count > negative_count THEN "POSITIVE"
        ELSE IF negative_count > positive_count THEN "NEGATIVE"
        ELSE "NEUTRAL"

(* EnhancedFinancialChatbot._simple_sentiment_analysis *)
_simple_sentiment_analysis(t) ==
    LET positive_count == CountPresent(positive_words, Lower(t))
        negative_count == CountPresent(negative_words, Lower(t))
    IN  IF positive_count > negative_count THEN "POSITIVE"
        ELSE IF negative_count > positive_count THEN "NEGATIVE"
        ELSE "NEUTRAL"

\* requests.post(api_url, headers=headers, json=payload, timeout=30)
RequestTimeout == 30
Post(model_name) == [model |-> model_name, timeout |-> RequestTimeout]

\* variant: an empty result is answered by calling the remote model again
analyze_sentiment_Retry(t, outcome) ==
    LET result == call_huggingface_api(outcome)
        posted == <<Post("sentiment_analysis")>>
    IN  IF result.n > 0 /\ result.top = "list"
           /\ result.first = "list" /\ Len(result.items) > 0
        THEN IF \E k \in DOMAIN result.items : result.items[k].type # "dict"
             THEN [raised |-> "AttributeError", value |-> "", requests |-> posted]
             ELSE LET top_sentiment == MaxByKey(Tail(result.items), Head(result.items))
                      label == IF top_sentiment.has_label THEN top_sentiment.label
                               ELSE "NEUTRAL"
                  IN  [raised |-> "", value |-> label_mapping(label), requests |-> posted]
        ELSE [raised |-> "", value |-> _simple_sentiment_analysis(t),
              requests |-> posted \o posted]

(* EnhancedFinancialChatbot.analyze_sentiment: one call of                  *)
(* call_huggingface_api(MODELS['sentiment_analysis'], payload), which posts *)
(* once, before the result is looked at                                     *)
analyze_sentiment(t, outcome) ==
    LET result == call_huggingface_api(outcome)
        posted == <<Post("sentiment_analysis")>>
    IN  IF result.n > 0 /\ result.top = "list"
           /\ result.first = "list" /\ Len(result.items) > 0
        THEN IF \E k \in DOMAIN result.items : result.items[k].type # "dict"
             THEN [raised |-> "AttributeError", value |-> "",   \* x.get on a non-dict
                   requests |-> posted]
             ELSE LET top_sentiment == MaxByKey(Tail(result.items), Head(result.items))
                      label == IF top_sentiment.has_label THEN top_sentiment.label
                               ELSE "NEUTRAL"
                  IN  [raised |-> "", value |-> label_mapping(label), requests |-> posted]
        ELSE [raised |-> "", value |-> _simple_sentiment_analysis(t),
              requests |-> posted]

-----------------------------------------------------------------------------
(* SpecSentiment: analyze_sentiment over texts and remote outcomes *)

MaxItems == 2

SentimentFragments ==
    { <<"g", "o", "o", "d">>,
      <<"B", "A", "D">>,
      <<"w", "o", "r", "r", "i", "e", "d">>,
      <<" ">>,
      <<"G", "r", "e", "a", "t">>,
      <<"g", "o", "o", "d", " ", "G", "O", "O", "D">>,
      <<"o", "k">> }

Items ==
    {Item("dict", TRUE, l, TRUE, sc) : l \in {"LABEL_0", "LABEL_2", "positive"},
                                       sc \in {10, 90}}
    \cup {Item("dict", TRUE, "LABEL_1", FALSE, 0),
          Item("dict", FALSE, "", TRUE, 50),
          Item("str", FALSE, "", FALSE, 0)}

\* the non-empty lists of at most n items
RECURSIVE ItemLists(_)
ItemLists(n) ==
    IF n = 0 THEN {}
    ELSE {<<i>> : i \in Items}
         \cup {l \o <<i>> : l \in ItemLists(n - 1), i \in Items}

RemoteOutcomes ==
    {Outcome(k, EmptyDict) :
        k \in {"status_503", "status_500", "timeout", "connection_error", "invalid_json"}}
    \cup {Outcome("status_200", b) :
            b \in {EmptyDict,                         \* {}
                   Body("dict", 1, "none", <<>>),     \* {"error": ...}
                   Body("str", 5, "none", <<>>),      \* "error"
                   Body("null", 0, "none", <<>>),     \* null
                   Body("list", 0, "none", <<>>),     \* []
                   Body("list", 1, "dict", <<>>),     \* [{...}]
                   Body("list", 1, "str", <<>>),      \* ["..."]
                   Body("list", 1, "list", <<>>)}}    \* [[]]
    \cup {Outcome("status_200", Body("list", 1, "list", l)) : l \in ItemLists(MaxItems)}

InitSentiment ==
    /\ text \in TextsOf(SentimentFragments, MaxFragments)
    /\ remote \in RemoteOutcomes
    /\ user_profile = None
    /\ expenses = <<>>
    /\ messages = <<>>
    /\ last = NoLast
    /\ health = NoHealth
    /\ sentiment = NoSentiment
    /\ intent = ""
    /\ reply = NoReply
    /\ analysis = NoAnalysis
    /\ report = NoReport
    /\ pc = "start"

AnalyzeSentimentCall ==
    /\ pc = "start"
    /\ sentiment' = analyze_sentiment(text, remote)
    /\ pc' = "analyzed"
    /\ UNCHANGED <<user_profile, expenses, messages, last, text, remote, health,
                   intent, reply, analysis, report>>

NextSentiment == AnalyzeSentimentCall

SpecSentiment == InitSentiment /\ [][NextSentiment]_vars

\* a 200 body that is a list whose first element is a non-empty list of
\* {label, score} objects
WellFormedAnswer ==
    /\ remote.kind = "status_200"
    /\ remote.body.top = "list" /\ remote.body.n > 0
    /\ remote.body.first = "list" /\ Len(remote.body.items) > 0
    /\ \A k \in DOMAIN remote.body.items :
          LET x == remote.body.items[k]
          IN  x.type = "dict" /\ x.has_label /\ x.has_score

SentimentValues == {"POSITIVE", "NEGATIVE", "NEUTRAL"}

\* C4: for every outcome of the remote call other than a well-formed answer
\* analyze_sentiment raises nothing and returns the local keyword fallback.
C4_FailureFallsBack ==
    (pc = "analyzed" /\ ~WellFormedAnswer) =>
        /\ sentiment.raised = ""
        /\ sentiment.value = _simple_sentiment_analysis(text)

\* C5: whatever the text and the remote answer, a value returned by
\* analyze_sentiment is one of POSITIVE, NEGATIVE, NEUTRAL.
C5_SentimentInThree ==
    (pc = "analyzed" /\ sentiment.raised = "") => sentiment.value \in SentimentValues

-----------------------------------------------------------------------------
(* The advice rules of EnhancedFinancialChatbot.  An advice text is the     *)
(* sequence of its parts: t is the fixed wording of the part, v the number  *)
(* formatted into it and s the profile text formatted into it.              *)

Part(t, v, s) == [t |-> t, v |-> v, s |-> s]
Txt(t) == Part(t, Num(0), <<>>)
Advice(parts) == [raised |-> "", parts |-> parts]
Raise(exc) == [raised |-> exc, parts |-> <<>>]

\* the user-type block closing the budgeting advice
BudgetingTips(p) ==
    IF p.user_type = "student" THEN <<Txt("Student-Specific Tips")>>
    ELSE IF p.user_type = "professional" THEN <<Txt("Professional Tips")>>
    ELSE <<>>

\* variant: the tier bounds 10 and 20 belong to the lower tier
_get_budgeting_advice_TiersInclusive(p) ==
    LET monthly_income == MonthlyIncome(p)
        monthly_surplus == MonthlySurplus(p)
        ratio == RDiv(monthly_surplus, monthly_income)
        savings_rate == RMul(ratio.value, Num(100))
    IN  IF RGt(monthly_surplus, Num(0))
        THEN IF ratio.raised # "" THEN Raise(ratio.raised)
             ELSE Advice(<<Txt("Budgeting Advice"),
                           Part("Great news! You have a monthly surplus of $",
                                Money(monthly_surplus), <<>>),
                           Part("% savings rate", RoundTenths(savings_rate), <<>>),
                           IF RLe(savings_rate, Num(10))
                           THEN Txt("Recommendation: Try to increase your savings rate to at least 10-15% of income.")
                           ELSE IF RLe(savings_rate, Num(20))
                           THEN Txt("Recommendation: You're doing well! Consider pushing towards a 20% savings rate.")
                           ELSE Txt("Excellent! You're exceeding the recommended 20% savings rate.")>>
                        \o BudgetingTips(p))
        ELSE Advice(<<Txt("Budgeting Advice"),
                      Part("You're spending $ more than you earn monthly.",
                           Money(Frac(Abs(monthly_surplus.n), monthly_surplus.d)), <<>>),
                      Txt("Immediate Actions"),
                      Txt("1. Track every expense for 30 days"),
                      Txt("2. Identify your top 3 expense categories"),
                      Txt("3. Find ways to reduce spending by 10-15%")>>
                    \o BudgetingTips(p))

(* _get_budgeting_advice *)
_get_budgeting_advice(p) ==
    LET monthly_income == MonthlyIncome(p)
        monthly_surplus == MonthlySurplus(p)
        ratio == RDiv(monthly_surplus, monthly_income)
        savings_rate == RMul(ratio.value, Num(100))
    IN  IF RGt(monthly_surplus, Num(0))
        THEN IF ratio.raised # "" THEN Raise(ratio.raised)
             ELSE Advice(<<Txt("Budgeting Advice"),
                           Part("Great news! You have a monthly surplus of $",
                                Money(monthly_surplus), <<>>),
                           Part("% savings rate", RoundTenths(savings_rate), <<>>),
                           IF RLt(savings_rate, Num(10))
                           THEN Txt("Recommendation: Try to increase your savings rate to at least 10-15% of income.")
                           ELSE IF RLt(savings_rate, Num(20))
                           THEN Txt("Recommendation: You're doing well! Consider pushing towards a 20% savings rate.")
                           ELSE Txt("Excellent! You're exceeding the recommended 20% savings rate.")>>
                        \o BudgetingTips(p))
        ELSE Advice(<<Txt("Budgeting Advice"),
                      Part("You're spending $ more than you earn monthly.",
                           Money(Frac(Abs(monthly_surplus.n), monthly_surplus.d)), <<>>),
                      Txt("Immediate Actions"),
                      Txt("1. Track every expense for 30 days"),
                      Txt("2. Identify your top 3 expense categories"),
                      Txt("3. Find ways to reduce spending by 10-15%")>>
                    \o BudgetingTips(p))

\* risk_strategies.get(risk_tolerance.lower(), risk_strategies['moderate'])
risk_strategies(key) ==
    IF key = Risk_conservative
    THEN [allocation |-> "20% stocks, 80% bonds/CDs",
          instruments |-> "Treasury bonds, high-grade corporate bonds, CDs",
          expected_return |-> "3-5% annually"]
    ELSE IF key = Risk_aggressive
    THEN [allocation |-> "80-90% stocks, 10-20% bonds",
          instruments |-> "Growth stocks, small-cap funds, international funds",
          expected_return |-> "8-12% annually (with higher volatility)"]
    ELSE [allocation |-> "60% stocks, 40% bonds",
          instruments |-> "Index funds, target-date funds, balanced funds",
          expected_return |-> "6-8% annually"]

\* variant: the table is looked up without lower()
_get_investment_advice_CaseSensitive(p) ==
    LET risk_profile == risk_strategies(p.risk_tolerance)
        monthly_surplus == MonthlySurplus(p)
    IN  Advice(<<Txt("Investment Advice"),
                 Part("Based on your risk tolerance", Num(0), p.risk_tolerance),
                 Txt(risk_profile.allocation),
                 Txt(risk_profile.instruments),
                 Txt(risk_profile.expected_return)>>
               \o (IF p.age < 30 THEN <<Txt("Age Advantage")>>
                   ELSE IF p.age > 50 THEN <<Txt("Pre-Retirement Focus")>>
                   ELSE <<>>)
               \o (IF RGt(monthly_surplus, Num(0)) /\ p.savings_amount > 0
                   THEN <<Part("Growth Projection: If you invest $/month for 10 years at 7% return",
                               Money(monthly_surplus), <<>>),
                          Part("you could have approximately 1.07^10 x $",
                               RAdd(Num(p.savings_amount),
                                    RMul(monthly_surplus, Num(12 * 10))), <<>>)>>
                   ELSE <<>>))

(* _get_investment_advice.  The growth projection is                        *)
(* calculate_compound_interest(principal, 0.07, 10, 1) = principal*1.07^10; *)
(* the part carries the principal, the power is not evaluated.              *)
_get_investment_advice(p) ==
    LET risk_profile == risk_strategies(Lower(p.risk_tolerance))
        monthly_surplus == MonthlySurplus(p)
    IN  Advice(<<Txt("Investment Advice"),
                 Part("Based on your risk tolerance", Num(0), p.risk_tolerance),
                 Txt(risk_profile.allocation),
                 Txt(risk_profile.instruments),
                 Txt(risk_profile.expected_return)>>
               \o (IF p.age < 30 THEN <<Txt("Age Advantage")>>
                   ELSE IF p.age > 50 THEN <<Txt("Pre-Retirement Focus")>>
                   ELSE <<>>)
               \o (IF RGt(monthly_surplus, Num(0)) /\ p.savings_amount > 0
                   THEN <<Part("Growth Projection: If you invest $/month for 10 years at 7% return",
                               Money(monthly_surplus), <<>>),
                          Part("you could have approximately 1.07^10 x $",
                               RAdd(Num(p.savings_amount),
                                    RMul(monthly_surplus, Num(12 * 10))), <<>>)>>
                   ELSE <<>>))

\* the line of the goal-based savings block for one goal
GoalLine(goal) ==
    IF Lower(goal) = <<"b", "u", "y", " ", "a", " ", "h", "o", "u", "s", "e">>
    THEN Part("Save 20% down payment + closing costs", Num(0), goal)
    ELSE IF Lower(goal) = <<"r", "e", "t", "i", "r", "e", "m", "e", "n", "t">>
    THEN Part("Target 25x annual expenses by retirement", Num(0), goal)
    ELSE Part("Create specific savings timeline", Num(0), goal)

\* variant: a coverage of exactly one half falls in the lowest tier
_get_savings_advice_HalfIsLow(p) ==
    LET emergency_target == p.monthly_expenses * 6
        coverage == IF emergency_target > 0
                    THEN RDiv(Num(p.savings_amount), Num(emergency_target))
                    ELSE Returned(Num(0))
        current_coverage == coverage.value
    IN  IF coverage.raised # "" THEN Raise(coverage.raised)
        ELSE Advice(<<Txt("Savings Strategy"), Txt("Emergency Fund Status")>>
                    \o (IF RGe(current_coverage, Num(1))
                        THEN <<Part("Excellent! You have months of expenses covered.",
                                    RoundTenths(current_coverage), <<>>)>>
                        ELSE IF RGt(current_coverage, Frac(1, 2))
                        THEN <<Part("You're halfway there! Need $ more for full 6-month coverage.",
                                    Money(Num(emergency_target - p.savings_amount)), <<>>)>>
                        ELSE <<Part("Emergency fund needs attention. Target: $",
                                    Money(Num(emergency_target)), <<>>),
                               Part("Current: $", Money(Num(p.savings_amount)), <<>>),
                               Txt("Action Plan: Save $500-1000/month until you reach your target.")>>)
                    \o <<Txt("Best Savings Options")>>
                    \o (IF Len(p.financial_goals) > 0
                        THEN <<Txt("Goal-Based Savings")>>
                             \o [k \in DOMAIN p.financial_goals |-> GoalLine(p.financial_goals[k])]
                        ELSE <<>>))

(* _get_savings_advice *)
_get_savings_advice(p) ==
    LET emergency_target == p.monthly_expenses * 6
        coverage == IF emergency_target > 0
                    THEN RDiv(Num(p.savings_amount), Num(emergency_target))
                    ELSE Returned(Num(0))
        current_coverage == coverage.value
    IN  IF coverage.raised # "" THEN Raise(coverage.raised)
        ELSE Advice(<<Txt("Savings Strategy"), Txt("Emergency Fund Status")>>
                    \o (IF RGe(current_coverage, Num(1))
                        THEN <<Part("Excellent! You have months of expenses covered.",
                                    RoundTenths(current_coverage), <<>>)>>
                        ELSE IF RGe(current_coverage, Frac(1, 2))
                        THEN <<Part("You're halfway there! Need $ more for full 6-month coverage.",
                                    Money(Num(emergency_target - p.savings_amount)), <<>>)>>
                        ELSE <<Part("Emergency fund needs attention. Target: $",
                                    Money(Num(emergency_target)), <<>>),
                               Part("Current: $", Money(Num(p.savings_amount)), <<>>),
                               Txt("Action Plan: Save $500-1000/month until you reach your target.")>>)
                    \o <<Txt("Best Savings Options")>>
                    \o (IF Len(p.financial_goals) > 0
                        THEN <<Txt("Goal-Based Savings")>>
                             \o [k \in DOMAIN p.financial_goals |-> GoalLine(p.financial_goals[k])]
                        ELSE <<>>))

(* _get_debt_advice: fixed text *)
_get_debt_advice(p) ==
    Advice(<<Txt("Debt Management Strategy"),
             Txt("1. Debt Avalanche (Mathematically Optimal)"),
             Txt("2. Debt Snowball (Psychologically Motivating)"),
             Txt("Priority Order (Avalanche Method): credit cards, personal loans, auto loans, student loans, mortgage"),
             Txt("Prevention Strategies")>>)

(* _get_tax_advice *)
_get_tax_advice(p) ==
    Advice(<<Txt("Tax Optimization"),
             IF p.user_type = "student" THEN Txt("Student Tax Benefits")
             ELSE Txt("Key Tax Strategies")>>
           \o (IF p.income > 100000 THEN <<Txt("Higher Income Strategies")>> ELSE <<>>))

(* _get_insurance_advice *)
_get_insurance_advice(p) ==
    Advice(<<Txt("Insurance Protection"),
             Txt("Essential Insurance Types"),
             IF p.user_type = "student" THEN Txt("Student Priorities")
             ELSE Txt("Professional Priorities"),
             Txt("Money-Saving Tips")>>)

Max(a, b) == IF a >= b THEN a ELSE b

\* FinancialCalculations.calculate_retirement_needs: income * 0.8 * 25
calculate_retirement_needs(current_age, retirement_age, current_income) ==
    RMul(RMul(Num(current_income), Frac(4, 5)), Num(25))

\* variant: the need and the target are also computed with 0 years to go
_get_retirement_advice_TargetAtZeroYears(p) ==
    LET retirement_age == 65
        years_to_retirement == Max(retirement_age - p.age, 0)
        retirement_needs == calculate_retirement_needs(p.age, retirement_age, p.income)
        monthly_needed == RDiv(retirement_needs, Num(years_to_retirement * 12))
        strategy == IF p.age < 30 THEN Txt("20s Advantage: Time is your biggest asset!")
                    ELSE IF p.age < 50 THEN Txt("Peak Earning Years: Accelerate savings")
                    ELSE Txt("Pre-Retirement: Catch-up mode")
    IN  IF years_to_retirement >= 0
        THEN IF monthly_needed.raised # "" THEN Raise(monthly_needed.raised)
             ELSE Advice(<<Txt("Retirement Planning"),
                           Part("Retirement Timeline: years to go", Num(years_to_retirement), <<>>),
                           Part("Estimated Need: $ (using 4% withdrawal rule)",
                                Money(retirement_needs), <<>>),
                           Part("Monthly Savings Target: $", Money(monthly_needed.value), <<>>),
                           Txt("Retirement Accounts Priority"),
                           strategy>>)
        ELSE Advice(<<Txt("Retirement Planning"),
                      Txt("Already at retirement age! Focus on:"),
                      Txt("Retirement Accounts Priority"),
                      strategy>>)

(* _get_retirement_advice *)
_get_retirement_advice(p) ==
    LET retirement_age == 65
        years_to_retirement == Max(retirement_age - p.age, 0)
        retirement_needs == calculate_retirement_needs(p.age, retirement_age, p.income)
        monthly_needed == RDiv(retirement_needs, Num(years_to_retirement * 12))
        strategy == IF p.age < 30 THEN Txt("20s Advantage: Time is your biggest asset!")
                    ELSE IF p.age < 50 THEN Txt("Peak Earning Years: Accelerate savings")
                    ELSE Txt("Pre-Retirement: Catch-up mode")
    IN  IF years_to_retirement > 0
        THEN IF monthly_needed.raised # "" THEN Raise(monthly_needed.raised)
             ELSE Advice(<<Txt("Retirement Planning"),
                           Part("Retirement Timeline: years to go", Num(years_to_retirement), <<>>),
                           Part("Estimated Need: $ (using 4% withdrawal rule)",
                                Money(retirement_needs), <<>>),
                           Part("Monthly Savings Target: $", Money(monthly_needed.value), <<>>),
                           Txt("Retirement Accounts Priority"),
                           strategy>>)
        ELSE Advice(<<Txt("Retirement Planning"),
                      Txt("Already at retirement age! Focus on:"),
                      Txt("Retirement Accounts Priority"),
                      strategy>>)

\* variant: the retirement item is also listed at age 65
_get_general_advice_RetirementAt65(p) ==
    LET health_score == generate_financial_health_score(Some(p), <<>>)
        monthly_surplus == MonthlySurplus(p)
        emergency_target == p.monthly_expenses * 6
        deficit == emergency_target - p.savings_amount
    IN  IF health_score.raised # "" THEN Raise(health_score.raised)
        ELSE Advice(<<Txt("General Financial Guidance"),
                      Part("Your Financial Health Score: /100", health_score.score, <<>>),
                      Txt(health_score.grade),
                      Txt("Personalized Action Plan")>>
                    \o (IF p.savings_amount < emergency_target
                        THEN <<Part("1. Build Emergency Fund: Save $ more",
                                    Money(Num(deficit)), <<>>),
                               Part("$/month for 6 months", Money(Frac(deficit, 6)), <<>>)>>
                        ELSE <<Txt("1. Emergency Fund Complete: Well done!")>>)
                    \o <<Txt("2. Eliminate High-Interest Debt: Pay off credit cards and personal loans first")>>
                    \o (IF p.age <= 65
                        THEN <<Txt("3. Retirement Savings: Aim for 10-15% of income in retirement accounts")>>
                        ELSE <<>>)
                    \o (IF RGt(monthly_surplus, Num(0))
                        THEN <<Part("4. Investment Growth: With $ monthly surplus, consider diversified investing",
                                    Money(monthly_surplus), <<>>)>>
                        ELSE <<>>)
                    \o <<Txt("Key Financial Principles")>>)

(* _get_general_advice: the health score is computed without a ledger *)
_get_general_advice(p) ==
    LET health_score == generate_financial_health_score(Some(p), <<>>)
        monthly_surplus == MonthlySurplus(p)
        emergency_target == p.monthly_expenses * 6
        deficit == emergency_target - p.savings_amount
    IN  IF health_score.raised # "" THEN Raise(health_score.raised)
        ELSE Advice(<<Txt("General Financial Guidance"),
                      Part("Your Financial Health Score: /100", health_score.score, <<>>),
                      Txt(health_score.grade),
                      Txt("Personalized Action Plan")>>
                    \o (IF p.savings_amount < emergency_target
                        THEN <<Part("1. Build Emergency Fund: Save $ more",
                                    Money(Num(deficit)), <<>>),
                               Part("$/month for 6 months", Money(Frac(deficit, 6)), <<>>)>>
                        ELSE <<Txt("1. Emergency Fund Complete: Well done!")>>)
                    \o <<Txt("2. Eliminate High-Interest Debt: Pay off credit cards and personal loans first")>>
                    \o (IF p.age < 65
                        THEN <<Txt("3. Retirement Savings: Aim for 10-15% of income in retirement accounts")>>
                        ELSE <<>>)
                    \o (IF RGt(monthly_surplus, Num(0))
                        THEN <<Part("4. Investment Growth: With $ monthly surplus, consider diversified investing",
                                    Money(monthly_surplus), <<>>)>>
                        ELSE <<>>)
                    \o <<Txt("Key Financial Principles")>>)

Intents == {"budgeting", "investment", "savings", "debt", "tax", "insurance",
            "retirement", "general"}

\* variant: an intent outside the table takes the budgeting rule
advice_generators_DefaultBudgeting(i) ==
    IF i \in Intents THEN i ELSE "budgeting"

\* advice_generators.get(intent, self._get_general_advice): the name of the rule
advice_generators(i) ==
    IF i \in Intents THEN i ELSE "general"

(* _get_intent_specific_advice *)
_get_intent_specific_advice(p, i) ==
    LET generator == advice_generators(i)
    IN  IF generator = "budgeting" THEN _get_budgeting_advice(p)
        ELSE IF generator = "investment" THEN _get_investment_advice(p)
        ELSE IF generator = "savings" THEN _get_savings_advice(p)
        ELSE IF generator = "debt" THEN _get_debt_advice(p)
        ELSE IF generator = "tax" THEN _get_tax_advice(p)
        ELSE IF generator = "insurance" THEN _get_insurance_advice(p)
        ELSE IF generator = "retirement" THEN _get_retirement_advice(p)
        ELSE _get_general_advice(p)

\* variant: the user-type line is put before the sentiment line
_personalize_advice_TypeFirst(p, base_advice, sent) ==
    (IF p.user_type = "student"
     THEN <<Txt("As a student, focus on building good financial habits now - they'll serve you well throughout your career.")>>
     ELSE IF p.user_type = "professional"
     THEN <<Txt("With your professional status, you're in a great position to accelerate your financial goals.")>>
     ELSE IF p.user_type = "retiree"
     THEN <<Txt("In retirement, focus on preservation and sustainable income strategies.")>>
     ELSE <<>>)
    \o (IF sent = "NEGATIVE"
        THEN <<Txt("I understand you might be feeling stressed about your finances. Take it one step at a time - small improvements add up!")>>
        ELSE IF sent = "POSITIVE"
        THEN <<Txt("Great to see your positive attitude about finances! Let's build on that momentum.")>>
        ELSE <<>>)
    \o base_advice

(* _personalize_advice: sentiment line, user-type line, then the base advice *)
_personalize_advice(p, base_advice, sent) ==
    (IF sent = "NEGATIVE"
     THEN <<Txt("I understand you might be feeling stressed about your finances. Take it one step at a time - small improvements add up!")>>
     ELSE IF sent = "POSITIVE"
     THEN <<Txt("Great to see your positive attitude about finances! Let's build on that momentum.")>>
     ELSE <<>>)
    \o (IF p.user_type = "student"
        THEN <<Txt("As a student, focus on building good financial habits now - they'll serve you well throughout your career.")>>
        ELSE IF p.user_type = "professional"
        THEN <<Txt("With your professional status, you're in a great position to accelerate your financial goals.")>>
        ELSE IF p.user_type = "retiree"
        THEN <<Txt("In retirement, focus on preservation and sustainable income strategies.")>>
        ELSE <<>>)
    \o base_advice

\* the tips table of _get_contextual_tips
tips(i) ==
    IF i = "budgeting" THEN "Try the 24-hour rule: wait a day before making non-essential purchases over $100."
    ELSE IF i = "investment" THEN "Dollar-cost averaging reduces the impact of market volatility - invest the same amount regularly."
    ELSE IF i = "savings" THEN "Automate your savings by setting up automatic transfers to your savings account on payday."
    ELSE IF i = "debt" THEN "Consider the debt avalanche method: pay minimums on all debts, then attack the highest interest rate first."
    ELSE IF i = "tax" THEN "Keep receipts and documents organized throughout the year - don't wait until tax season!"
    ELSE IF i = "insurance" THEN "Review your insurance coverage annually, especially after major life events."
    ELSE IF i = "retirement" THEN "Every year you delay retirement saving, you need to save roughly twice as much to catch up."
    ELSE "Track your net worth monthly - it's the best single metric of financial progress."

(* _get_contextual_tips: tips.get(intent, tips['general']) *)
_get_contextual_tips(i) ==
    IF i \in Intents THEN tips(i) ELSE tips("general")

_get_onboarding_message == Txt("Welcome to FINOVA - Your AI Financial Advisor!")

\* the functions a rule invocation runs, in order
RuleCalls(i) ==
    IF advice_generators(i) = "general"
    THEN <<"_get_general_advice", "generate_financial_health_score">>
    ELSE <<"_get_" \o advice_generators(i) \o "_advice">>

\* the body of generate_personalized_response once a profile is set
ProfiledResponse(p, i, sent) ==
    LET base_advice == _get_intent_specific_advice(p, i)
    IN  IF base_advice.raised # ""
        THEN [raised |-> base_advice.raised,
              calls |-> <<"_get_intent_specific_advice">> \o RuleCalls(i),
              parts |-> <<>>]
        ELSE [raised |-> "",
              calls |-> <<"_get_intent_specific_advice">> \o RuleCalls(i)
                        \o <<"_personalize_advice", "_get_contextual_tips">>,
              parts |-> _personalize_advice(p, base_advice.parts, sent)
                        \o <<Part("Quick Tip", Num(0), <<>>),
                             Txt(_get_contextual_tips(i))>>]

\* variant: without a profile the onboarding message is not returned at once,
\* the contextual tip is still appended to it
generate_personalized_response_TipAlways(profile, user_input, i, sent) ==
    IF IsNone(profile)
    THEN [raised |-> "",
          calls |-> <<"_get_onboarding_message", "_get_contextual_tips">>,
          parts |-> <<_get_onboarding_message, Part("Quick Tip", Num(0), <<>>),
                      Txt(_get_contextual_tips(i))>>]
    ELSE ProfiledResponse(The(profile), i, sent)

(* generate_personalized_response(user_input, intent, sentiment): the text  *)
(* built and the functions invoked on the way (user_input is passed to the   *)
(* rules, none of which reads it)                                            *)
generate_personalized_response(profile, user_input, i, sent) ==
    IF IsNone(profile)
    THEN [raised |-> "", calls |-> <<"_get_onboarding_message">>,
          parts |-> <<_get_onboarding_message>>]
    ELSE ProfiledResponse(The(profile), i, sent)

-----------------------------------------------------------------------------
(* ExpenseAnalyzer.analyze_spending_pattern *)

RECURSIVE SumAmounts(_)
SumAmounts(ledger) ==
    IF ledger = <<>> THEN 0 ELSE Head(ledger).amount + SumAmounts(Tail(ledger))

\* max(expenses, key=expenses.get): the first key with the largest amount
RECURSIVE MaxEntry(_, _)
MaxEntry(ledger, best) ==
    IF ledger = <<>> THEN best
    ELSE IF Head(ledger).amount > best.amount THEN MaxEntry(Tail(ledger), Head(ledger))
    ELSE MaxEntry(Tail(ledger), best)

\* min(expenses, key=expenses.get): the first key with the smallest amount
RECURSIVE MinEntry(_, _)
MinEntry(ledger, best) ==
    IF ledger = <<>> THEN best
    ELSE IF Head(ledger).amount < best.amount THEN MinEntry(Tail(ledger), Head(ledger))
    ELSE MinEntry(Tail(ledger), best)

\* (v / total) * 100 for one entry
Percentage(v, total) ==
    LET q == RDiv(Num(v), Num(total))
    IN  [raised |-> q.raised, value |-> RMul(q.value, Num(100))]

\* the recommendation for one category, if any
Recommendation(category, percentage) ==
    IF Lower(category) \in {<<"e", "n", "t", "e", "r", "t", "a", "i", "n", "m", "e", "n", "t">>, <<"s", "h", "o", "p", "p", "i", "n", "g">>} /\ RGt(percentage, Num(20))
    THEN <<Part("Consider reducing spending (currently %)", RoundTenths(percentage), category)>>
    ELSE IF Lower(category) = <<"h", "o", "u", "s", "i", "n", "g">> /\ RGt(percentage, Num(30))
    THEN <<Part("Housing costs are high (%). Consider options to reduce.",
                RoundTenths(percentage), <<>>)>>
    ELSE <<>>

RECURSIVE Recommendations(_)
Recommendations(percentages) ==
    IF percentages = <<>> THEN <<>>
    ELSE Recommendation(Head(percentages).category, Head(percentages).percentage)
         \o Recommendations(Tail(percentages))

\* analyze_spending_pattern past its  if not expenses  guard
AnalysisOf(ledger) ==
         LET total == SumAmounts(ledger)
             pct == [k \in DOMAIN ledger |-> Percentage(ledger[k].amount, total)]
             exc == FirstRaised([k \in DOMAIN ledger |-> pct[k].raised])
             category_percentages ==
                 [k \in DOMAIN ledger |->
                     [category |-> ledger[k].category, percentage |-> pct[k].value]]
         IN  IF exc # "" THEN [NoAnalysis EXCEPT !.raised = exc, !.empty = FALSE]
             ELSE [raised |-> "", empty |-> FALSE,
                   total_expenses |-> total,
                   highest_category |-> MaxEntry(Tail(ledger), Head(ledger)).category,
                   lowest_category |-> MinEntry(Tail(ledger), Head(ledger)).category,
                   category_percentages |-> category_percentages,
                   recommendations |-> Recommendations(category_percentages)]

\* variant: no guard for the empty ledger; max() of an empty dict raises
analyze_spending_pattern_Unguarded(ledger) ==
    IF ledger = <<>> THEN [NoAnalysis EXCEPT !.raised = "ValueError", !.empty = FALSE]
    ELSE AnalysisOf(ledger)

(* ExpenseAnalyzer.analyze_spending_pattern *)
analyze_spending_pattern(ledger) ==
    IF ledger = <<>> THEN NoAnalysis   \* return {}
    ELSE AnalysisOf(ledger)

\* expenses[category]
AmountOf(ledger, category) ==
    ledger[CHOOSE k \in DOMAIN ledger : ledger[k].category = category].amount

(* The body of ReportGenerator.generate_monthly_report, given the result of  *)
(* its call of analyze_spending_pattern; the date of the header is left out *)
ReportWith(profile, ledger, analysed) ==
    IF IsNone(profile)
    THEN [raised |-> "", parts |-> <<Txt("User profile required for report generation.")>>]
    ELSE LET p == The(profile)
             monthly_income == MonthlyIncome(p)
             total_expenses == IF ledger # <<>> THEN SumAmounts(ledger)
                               ELSE p.monthly_expenses
             health_score == generate_financial_health_score(profile, ledger)
         IN  IF health_score.raised # "" THEN [raised |-> health_score.raised, parts |-> <<>>]
             ELSE IF ledger # <<>> /\ analysed.raised # ""
             THEN [raised |-> analysed.raised, parts |-> <<>>]
             ELSE [raised |-> "",
                   parts |->
                     <<Txt("Monthly Financial Report"),
                       Txt("Name"), Txt(p.name),
                       Part("Monthly Income: $", Money(monthly_income), <<>>),
                       Part("Total Expenses: $", Money(Num(total_expenses)), <<>>),
                       Part("Net Cash Flow: $",
                            Money(RSub(monthly_income, Num(total_expenses))), <<>>),
                       Part("Score: /100", health_score.score, <<>>),
                       Txt(health_score.grade)>>
                     \o [k \in DOMAIN health_score.feedback |-> Txt(health_score.feedback[k])]
                     \o (IF ledger # <<>>
                         THEN <<Txt("Expense Analysis"),
                                Part("Highest Category: ($)",
                                     Money(Num(AmountOf(ledger, analysed.highest_category))),
                                     analysed.highest_category)>>
                              \o (IF analysed.recommendations # <<>>
                                  THEN <<Txt("Recommendations")>> \o analysed.recommendations
                                  ELSE <<>>)
                         ELSE <<>>)
                     \o (IF Len(p.financial_goals) > 0
                         THEN <<Txt("Goal Progress")>>
                              \o [k \in DOMAIN p.financial_goals |->
                                    Part("In Progress", Num(0), p.financial_goals[k])]
                         ELSE <<>>)]

\* variant: the recommendations of an analysis left by an earlier call are
\* used in place of fresh ones
generate_monthly_report_StaleAnalysis(profile, ledger) ==
    ReportWith(profile, ledger,
               IF analysis.empty \/ analysis.raised # ""
               THEN analyze_spending_pattern(ledger)
               ELSE [analyze_spending_pattern(ledger) EXCEPT
                        !.recommendations = analysis.recommendations])

(* ReportGenerator.generate_monthly_report *)
generate_monthly_report(profile, ledger) ==
    ReportWith(profile, ledger, analyze_spending_pattern(ledger))

-----------------------------------------------------------------------------
(* SpecEngine: one call of the engine's public surface on a profile (or     *)
(* none) and a ledger.                                                      *)

EngineAges == {29, 30, 49, 50, 51, 64, 65}
UserTypes == {"student", "professional", "retiree"}
RiskTolerances ==
    {Risk_conservative, Risk_moderate, Risk_aggressive,
     <<"M", "o", "d", "e", "r", "a", "t", "e">>,
     <<"A", "g", "g", "r", "e", "s", "s", "i", "v", "e">>,
     <<"C", "O", "N", "S", "E", "R", "V", "A", "T", "I", "V", "E">>,
     <<"r", "i", "s", "k", "y">>}
EngineSentiments == {"POSITIVE", "NEGATIVE", "NEUTRAL", "positive"}
EngineIntents == Intents \cup {"greeting", "Budgeting", ""}

EngineProfiles ==
    {UserProfile("Ann", 40, i, "Other", SubSeq(GoalOptions, 1, 3), Risk_moderate,
                 s, e, "professional") :
        i \in Incomes, s \in Savings, e \in MonthlyExpenses}
    \cup {UserProfile("Bob", a, 24000, "Student", <<>>, r, 900, 900, u) :
            a \in EngineAges, r \in RiskTolerances, u \in UserTypes}
    \cup {UserProfile("Cy", 22, i, "Student", <<>>, Risk_moderate, 900, e, u) :
            i \in {36000, 60000}, e \in {2500, 2800, 3000}, u \in UserTypes}

EngineLedgers ==
    {<<>>,
     <<Entry(EXPENSE_CATEGORIES[2], 0)>>,
     <<Entry(EXPENSE_CATEGORIES[2], 0), Entry(EXPENSE_CATEGORIES[7], 300)>>,
     <<Entry(EXPENSE_CATEGORIES[1], 600), Entry(EXPENSE_CATEGORIES[6], 300),
       Entry(EXPENSE_CATEGORIES[2], 100)>>}

InitEngine ==
    /\ user_profile \in {None} \cup {Some(p) : p \in EngineProfiles}
    /\ expenses \in EngineLedgers
    /\ messages = <<>>
    /\ last = NoLast
    /\ text = <<>>
    /\ remote = NoRemote
    /\ health = NoHealth
    /\ sentiment = NoSentiment
    /\ intent = ""
    /\ reply = NoReply
    /\ analysis = NoAnalysis
    /\ report = NoReport
    /\ pc = "start"

ResponseCall ==
    /\ pc = "start"
    /\ \E i \in EngineIntents, sent \in EngineSentiments :
          /\ intent' = i
          /\ sentiment' = [NoSentiment EXCEPT !.value = sent]
          /\ reply' = generate_personalized_response(user_profile, text, i, sent)
    /\ pc' = "response"
    /\ UNCHANGED <<user_profile, expenses, messages, last, text, remote, health,
                   analysis, report>>

HealthCall ==
    /\ pc = "start"
    /\ health' = generate_financial_health_score(user_profile, expenses)
    /\ pc' = "health"
    /\ UNCHANGED <<user_profile, expenses, messages, last, text, remote,
                   sentiment, intent, reply, analysis, report>>

AnalyzeCall ==
    /\ pc = "start"
    /\ analysis' = analyze_spending_pattern(expenses)
    /\ pc' = "analysis"
    /\ UNCHANGED <<user_profile, expenses, messages, last, text, remote, health,
                   sentiment, intent, reply, report>>

ReportCall ==
    /\ pc = "start"
    /\ report' = generate_monthly_report(user_profile, expenses)
    /\ pc' = "report"
    /\ UNCHANGED <<user_profile, expenses, messages, last, text, remote, health,
                   sentiment, intent, reply, analysis>>

NextEngine == ResponseCall \/ HealthCall \/ AnalyzeCall \/ ReportCall

SpecEngine == InitEngine /\ [][NextEngine]_vars

\* C3: no operation of the public surface raises a division-by-zero error,
\* for any profile with non-negative income, expenses and savings and any
\* ledger of non-negative amounts (zero income, zero expenses and a non-empty
\* ledger of total 0 included).
C3_NoDivisionByZero ==
    /\ reply.raised # "ZeroDivisionError"
    /\ health.raised # "ZeroDivisionError"
    /\ analysis.raised # "ZeroDivisionError"
    /\ report.raised # "ZeroDivisionError"

\* C7: without a profile generate_personalized_response returns the fixed
\* onboarding message for every intent and sentiment, raises nothing and
\* invokes no intent rule, no health scorer, no personalization wrapper and
\* no contextual tip.
C7_OnboardingWithoutProfile ==
    (pc = "response" /\ IsNone(user_profile)) =>
        /\ reply.raised = ""
        /\ reply.parts = <<_get_onboarding_message>>
        /\ reply.calls = <<"_get_onboarding_message">>

C7_Witness ==
    /\ pc = "response" /\ IsNone(user_profile)
    /\ intent = "budgeting" /\ sentiment.value = "NEGATIVE"
    /\ reply.parts = <<_get_onboarding_message>>

-----------------------------------------------------------------------------
(* DataValidator *)

\* data['monthly_expenses'] > (data['income'] / 12) * 2
ExpensesTooHigh(data) ==
    RGt(Num(data.monthly_expenses), RMul(Frac(data.income, 12), Num(2)))

\* variant: the income-vs-expenses check reports nothing
validate_financial_data_NoExpenseCheck(data) ==
    LET errors ==
            (IF data.income < 0 THEN <<"Income cannot be negative">> ELSE <<>>)
            \o (IF data.savings_amount < 0 THEN <<"Savings Amount cannot be negative">>
                ELSE <<>>)
            \o (IF data.age < 0 THEN <<"Age cannot be negative">> ELSE <<>>)
            \o (IF data.age < 18 \/ data.age > 100
                THEN <<"Age must be between 18 and 100">> ELSE <<>>)
    IN  [is_valid |-> Len(errors) = 0, errors |-> errors]

(* DataValidator.validate_financial_data: (len(errors) == 0, errors) *)
validate_financial_data(data) ==
    LET errors ==
            (IF data.income < 0 THEN <<"Income cannot be negative">> ELSE <<>>)
            \o (IF data.savings_amount < 0 THEN <<"Savings Amount cannot be negative">>
                ELSE <<>>)
            \o (IF data.age < 0 THEN <<"Age cannot be negative">> ELSE <<>>)
            \o (IF data.age < 18 \/ data.age > 100
                THEN <<"Age must be between 18 and 100">> ELSE <<>>)
            \o (IF ExpensesTooHigh(data)
                THEN <<"Monthly expenses seem unusually high compared to income">>
                ELSE <<>>)
    IN  [is_valid |-> Len(errors) = 0, errors |-> errors]

MaxInputLength == 1000

\* re.sub(r'[<>\"\'&]', '', text)
RECURSIVE RemoveHarmful(_)
RemoveHarmful(t) ==
    IF t = <<>> THEN <<>>
    ELSE IF Head(t) \in {"<", ">", "\"", "'", "&"} THEN RemoveHarmful(Tail(t))
    ELSE <<Head(t)>> \o RemoveHarmful(Tail(t))

\* str.strip() for the blank character
RECURSIVE StripLeft(_)
StripLeft(t) ==
    IF t # <<>> /\ Head(t) = " " THEN StripLeft(Tail(t)) ELSE t

RECURSIVE StripRight(_)
StripRight(t) ==
    IF t # <<>> /\ t[Len(t)] = " " THEN StripRight(SubSeq(t, 1, Len(t) - 1)) ELSE t

(* DataValidator.sanitize_input *)
sanitize_input(t) ==
    LET cleaned == RemoveHarmful(t)
        limited == SubSeq(cleaned, 1, Min(Len(cleaned), MaxInputLength))
    IN  StripRight(StripLeft(limited))

-----------------------------------------------------------------------------
(* Spec: the Streamlit session of main().  Each action is one script run     *)
(* triggered by one widget; an uncaught exception ends the run and keeps     *)
(* the session state written before it.                                     *)

MaxTurns == 2
MaxLedgerTotal == 20

Message(role, content) == [role |-> role, content |-> content]

\* the sidebar of a run: the health score shown when a profile is set
SidebarHealth(profile, ledger) ==
    IF IsNone(profile) THEN NoHealth
    ELSE generate_financial_health_score(profile, ledger)

\* variant: the name is not required
RequiredFilled_NameOptional(name, age, income) == age # 0 /\ income # 0

\* if name and age and income
RequiredFilled(name, age, income) == name # "" /\ age # 0 /\ income # 0

FormNames == {"", "Ann"}
FormIncomes == {0, 36000}
FormExpenses == {900, 6300}
FormAmounts == {0, 10}
FormCategories == {EXPENSE_CATEGORIES[2], EXPENSE_CATEGORIES[6]}
\* the prompt typed into the chat input: " c&d worried? "
Prompts == {<<" ", "c", "&", "d", " ", "w", "o", "r", "r", "i", "e", "d", "?", " ">>}
SessionOutcomes ==
    {Outcome("timeout", EmptyDict),
     Outcome("status_503", EmptyDict),
     Outcome("status_200", Body("list", 1, "list",
                                <<Item("dict", TRUE, "LABEL_2", TRUE, 90)>>)),
     Outcome("status_200", Body("list", 1, "list",
                                <<Item("str", FALSE, "", FALSE, 0)>>))}

Init ==
    /\ user_profile = None
    /\ expenses = <<>>
    /\ messages = <<>>
    /\ last = NoLast
    /\ text = <<>>
    /\ remote = NoRemote
    /\ health = NoHealth
    /\ sentiment = NoSentiment
    /\ intent = ""
    /\ reply = NoReply
    /\ analysis = NoAnalysis
    /\ report = NoReport
    /\ pc = "session"

\* a run that handles no chat input: the locals of the chat handler stay unset
NoChat ==
    /\ text' = <<>>
    /\ remote' = NoRemote
    /\ sentiment' = NoSentiment
    /\ intent' = ""
    /\ reply' = NoReply

\* the "Save Profile" button of the profile form (shown while no profile is set)
SaveProfile ==
    /\ IsNone(user_profile)
    /\ \E name \in FormNames, income \in FormIncomes, monthly \in FormExpenses :
          LET age == 30
              savings == 900
              data == FormData(name, age, income, savings, monthly)
              checked == validate_financial_data(data)
          IN  IF RequiredFilled(name, age, income)
              THEN IF checked.is_valid
                   THEN /\ user_profile' =
                              Some(UserProfile(name, age, income, "Other", <<>>,
                                               Risk_moderate, savings, monthly, "student"))
                        /\ last' = Last("saved", <<>>, data)
                   ELSE /\ user_profile' = user_profile
                        /\ last' = Last("rejected", checked.errors, data)
              ELSE /\ user_profile' = user_profile
                   /\ last' = Last("missing_fields",
                                   <<"Please fill in all required fields marked with *">>,
                                   data)
    /\ health' = SidebarHealth(user_profile', expenses)
    /\ NoChat
    /\ analysis' = NoAnalysis /\ report' = NoReport
    /\ UNCHANGED <<expenses, messages, pc>>

\* variant: editing the profile starts a new conversation
EditProfile_NewConversation ==
    /\ ~IsNone(user_profile)
    /\ user_profile' = None
    /\ messages' = <<>>
    /\ last' = Last("edit", <<>>, NoData)
    /\ health' = SidebarHealth(user_profile', expenses)
    /\ NoChat
    /\ analysis' = NoAnalysis /\ report' = NoReport
    /\ UNCHANGED <<expenses, pc>>

\* the "Edit Profile" button (shown while a profile is set)
EditProfile ==
    /\ ~IsNone(user_profile)
    /\ user_profile' = None
    /\ last' = Last("edit", <<>>, NoData)
    /\ health' = SidebarHealth(user_profile', expenses)
    /\ NoChat
    /\ analysis' = NoAnalysis /\ report' = NoReport
    /\ UNCHANGED <<expenses, messages, pc>>

\* st.chat_input: one prompt, one remote classifier outcome
ChatTurn ==
    /\ Len(messages) + 2 <= 2 * MaxTurns
    /\ \E prompt \in Prompts :
          LET with_user == Append(messages, Message("user", <<Part("", Num(0), prompt)>>))
              clean_prompt == sanitize_input(prompt)
              i == classify_intent(clean_prompt)
          IN  \E outcome \in SessionOutcomes :
                LET sent == analyze_sentiment(clean_prompt, outcome)
                    response == generate_personalized_response(user_profile, clean_prompt,
                                                               i, sent.value)
                IN  /\ text' = clean_prompt
                    /\ remote' = outcome
                    /\ sentiment' = sent
                    /\ IF sent.raised # ""
                       THEN /\ messages' = with_user
                            /\ last' = Last("chat_raised", <<sent.raised>>, NoData)
                            /\ intent' = ""
                            /\ reply' = NoReply
                       ELSE /\ intent' = i
                            /\ reply' = response
                            /\ IF response.raised # ""
                               THEN /\ messages' = with_user
                                    /\ last' = Last("chat_raised", <<response.raised>>,
                                                    NoData)
                               ELSE /\ messages' =
                                         Append(with_user,
                                                Message("assistant", response.parts))
                                    /\ last' = Last("chat", <<>>, NoData)
    /\ health' = SidebarHealth(user_profile, expenses)
    /\ analysis' = NoAnalysis /\ report' = NoReport
    /\ UNCHANGED <<user_profile, expenses, pc>>

\* variant: the amount of an existing key is replaced
AddTo_Replaces(ledger, category, amount) ==
    IF \E k \in DOMAIN ledger : ledger[k].category = category
    THEN [k \in DOMAIN ledger |->
             IF ledger[k].category = category
             THEN Entry(category, amount) ELSE ledger[k]]
    ELSE Append(ledger, Entry(category, amount))

\* st.session_state.expenses[category] += amount, or a new key
AddTo(ledger, category, amount) ==
    IF \E k \in DOMAIN ledger : ledger[k].category = category
    THEN [k \in DOMAIN ledger |->
             IF ledger[k].category = category
             THEN Entry(category, ledger[k].amount + amount) ELSE ledger[k]]
    ELSE Append(ledger, Entry(category, amount))

\* variant: a submission with amount 0 is stored as well
AddExpense_ZeroStored ==
    /\ \E category \in FormCategories, amount \in FormAmounts :
          /\ SumAmounts(expenses) + amount <= MaxLedgerTotal
          /\ expenses' = AddTo(expenses, category, amount)
          /\ last' = Last("added", <<>>, NoData)
    /\ health' = SidebarHealth(user_profile, expenses')
    /\ NoChat
    /\ analysis' = NoAnalysis /\ report' = NoReport
    /\ UNCHANGED <<user_profile, messages, pc>>

\* the "Add Expense" button of the expense form
AddExpense ==
    /\ \E category \in FormCategories, amount \in FormAmounts :
          /\ SumAmounts(expenses) + amount <= MaxLedgerTotal
          /\ IF amount > 0
             THEN /\ expenses' = AddTo(expenses, category, amount)
                  /\ last' = Last("added", <<>>, NoData)
             ELSE /\ expenses' = expenses
                  /\ last' = Last("add_ignored", <<>>, NoData)
    /\ health' = SidebarHealth(user_profile, expenses')
    /\ NoChat
    /\ analysis' = NoAnalysis /\ report' = NoReport
    /\ UNCHANGED <<user_profile, messages, pc>>

\* the "Clear" button (shown while the ledger is not empty)
ClearExpenses ==
    /\ expenses # <<>>
    /\ expenses' = <<>>
    /\ last' = Last("cleared", <<>>, NoData)
    /\ health' = SidebarHealth(user_profile, expenses')
    /\ NoChat
    /\ analysis' = NoAnalysis /\ report' = NoReport
    /\ UNCHANGED <<user_profile, messages, pc>>

\* the "Analyze" button (shown while the ledger is not empty)
Analyze ==
    /\ expenses # <<>>
    /\ analysis' = analyze_spending_pattern(expenses)
    /\ last' = IF analysis'.raised # ""
               THEN Last("analyze_raised", <<analysis'.raised>>, NoData)
               ELSE Last("analyzed", <<>>, NoData)
    /\ health' = SidebarHealth(user_profile, expenses)
    /\ NoChat
    /\ report' = NoReport
    /\ UNCHANGED <<user_profile, expenses, messages, pc>>

\* the "Report" button (shown while the ledger is not empty)
Report ==
    /\ expenses # <<>>
    /\ IF ~IsNone(user_profile)
       THEN /\ report' = generate_monthly_report(user_profile, expenses)
            /\ last' = IF report'.raised # ""
                       THEN Last("report_raised", <<report'.raised>>, NoData)
                       ELSE Last("reported", <<>>, NoData)
       ELSE /\ report' = NoReport
            /\ last' = Last("report_skipped", <<>>, NoData)
    /\ health' = SidebarHealth(user_profile, expenses)
    /\ NoChat
    /\ analysis' = NoAnalysis
    /\ UNCHANGED <<user_profile, expenses, messages, pc>>

Next ==
    \/ SaveProfile
    \/ EditProfile
    \/ ChatTurn
    \/ AddExpense
    \/ ClearExpenses
    \/ Analyze
    \/ Report

Spec == Init /\ [][Next]_vars

-----------------------------------------------------------------------------
(* Claims about the profile form (Spec) *)

\* the last run handled a "Save Profile" submission
Submitted == last.op \in {"saved", "rejected", "missing_fields"}

\* the submitted monthly_expenses exceed 2 x (income / 12)
HighExpenses == last.data.monthly_expenses * 12 > 2 * last.data.income

\* C8 (as stated): a submission whose monthly_expenses exceed 2 x (income / 12)
\* and whose other fields are valid is accepted and the profile stored.
C8_HighExpensesAccepted ==
    (/\ Submitted /\ HighExpenses
     /\ last.data.name # "" /\ last.data.age >= 18 /\ last.data.age <= 100
     /\ last.data.income > 0 /\ last.data.savings_amount >= 0)
    => (last.op = "saved" /\ ~IsNone(user_profile))

\* C8 (amended): a submission whose monthly_expenses exceed 2 x (income / 12)
\* is never accepted: no profile is stored, and when the required fields are
\* filled validation fails with the error "Monthly expenses seem unusually
\* high compared to income".
C8_HighExpensesRejected ==
    (Submitted /\ HighExpenses) =>
        /\ IsNone(user_profile)
        /\ last.op # "saved"
        /\ (last.data.name # "" /\ last.data.age # 0 /\ last.data.income # 0) =>
              /\ last.op = "rejected"
              /\ \E k \in DOMAIN last.errors :
                    last.errors[k] = "Monthly expenses seem unusually high compared to income"

C8_Witness ==
    /\ last.op = "rejected" /\ HighExpenses
    /\ last.data.name # "" /\ last.data.income > 0
    /\ IsNone(user_profile)

\* C9: after any sequence of Save Profile submissions and Edit Profile
\* actions the profile is absent or one that passed validation (non-empty
\* name, 18 <= age <= 100, income >= 0, savings_amount >= 0); a rejected
\* submission leaves it absent and Edit Profile makes it absent.
C9_ProfileAbsentOrValidated ==
    /\ IsNone(user_profile)
       \/ LET p == The(user_profile)
          IN  /\ p.name # ""
              /\ p.age >= 18 /\ p.age <= 100
              /\ p.income >= 0
              /\ p.savings_amount >= 0
              /\ p.monthly_expenses * 12 <= 2 * p.income
    /\ last.op \in {"rejected", "missing_fields", "edit"} => IsNone(user_profile)
    /\ last.op = "saved" =>
          /\ ~IsNone(user_profile)
          /\ The(user_profile).name = last.data.name
          /\ The(user_profile).income = last.data.income
          /\ The(user_profile).monthly_expenses = last.data.monthly_expenses

\* a profile saved after an earlier one was edited away, with a chat in between
C9_Witness ==
    /\ last.op = "saved" /\ ~IsNone(user_profile)
    /\ Len(messages) = 4
    /\ messages[2].content = <<_get_onboarding_message>>
    /\ messages[4].content # <<_get_onboarding_message>>

-----------------------------------------------------------------------------
(* Claims about the expense ledger (Spec) *)

\* the amount a ledger holds for a category, 0 when the category is absent
RECURSIVE Stored(_, _)
Stored(ledger, c) ==
    IF ledger = <<>> THEN 0
    ELSE (IF Head(ledger).category = c THEN Head(ledger).amount ELSE 0)
         + Stored(Tail(ledger), c)

Categories == {EXPENSE_CATEGORIES[k] : k \in DOMAIN EXPENSE_CATEGORIES}

\* what one run of main() does to the ledger
LedgerStep ==
    /\ last'.op = "added" =>
          \E c \in Categories :
              /\ Stored(expenses', c) > Stored(expenses, c)
              /\ Stored(expenses', c) - Stored(expenses, c) \in FormAmounts
              /\ \A d \in Categories \ {c} : Stored(expenses', d) = Stored(expenses, d)
    /\ last'.op = "cleared" => expenses' = <<>>
    /\ last'.op \notin {"added", "cleared"} => expenses' = expenses
    /\ \A j, k \in DOMAIN expenses' :
          /\ expenses'[k].amount > 0
          /\ (expenses'[j].category = expenses'[k].category) => (j = k)

\* C12: the ledger starts empty; an add-expense of a positive amount raises
\* the amount stored for its category by exactly that amount (a new category
\* starts at it) and leaves every other category as it was, so that each
\* stored amount is the sum of the amounts added since the last clear; a
\* category not added is absent; clear empties the ledger; nothing else
\* changes the ledger.
C12_LedgerSumsSinceClear ==
    /\ expenses = <<>>
    /\ [][LedgerStep]_vars

\* a category added twice holds both amounts
C12_Witness ==
    /\ last.op = "added"
    /\ expenses = <<Entry(EXPENSE_CATEGORIES[2], 20)>>

-----------------------------------------------------------------------------
(* Claims about the ledger argument of the health scorer (SpecScore) *)

\* the monthly expense figure the scorer is said to use
ExpenseFigure ==
    IF expenses # <<>> THEN SumAmounts(expenses) ELSE P.monthly_expenses

\* C13: generate_financial_health_score takes the ledger total as the monthly
\* expense figure when a non-empty ledger is supplied and
\* profile.monthly_expenses only when it is not: the result of a call is the
\* result for the same profile with that figure as its monthly expenses.
C13_LedgerTotalUsed ==
    pc = "scored" =>
        health = generate_financial_health_score(
                     Some([P EXCEPT !.monthly_expenses = ExpenseFigure]), <<>>)

-----------------------------------------------------------------------------
(* Claims about the investment rule (SpecEngine) *)

\* t equals the lower-case word when letter case is ignored
SameIgnoringCase(t, word) ==
    /\ Len(t) = Len(word)
    /\ \A k \in DOMAIN t : LowerChar(t[k]) = word[k]

ConservativeTriple ==
    <<Txt("20% stocks, 80% bonds/CDs"),
      Txt("Treasury bonds, high-grade corporate bonds, CDs"),
      Txt("3-5% annually")>>
ModerateTriple ==
    <<Txt("60% stocks, 40% bonds"),
      Txt("Index funds, target-date funds, balanced funds"),
      Txt("6-8% annually")>>
AggressiveTriple ==
    <<Txt("80-90% stocks, 10-20% bonds"),
      Txt("Growth stocks, small-cap funds, international funds"),
      Txt("8-12% annually (with higher volatility)")>>

\* the triple the rule is to emit for a risk_tolerance value
TripleFor(risk) ==
    IF SameIgnoringCase(risk, Risk_conservative) THEN ConservativeTriple
    ELSE IF SameIgnoringCase(risk, Risk_aggressive) THEN AggressiveTriple
    ELSE ModerateTriple

\* the parts of a reply include the three parts of a triple, in a row
Emits(parts, triple) ==
    \E k \in 1..(Len(parts) - 2) : SubSeq(parts, k, k + 2) = triple

\* C14: the investment rule emits the allocation, instruments and expected
\* return of the profile's risk_tolerance, letter case ignored, when that is
\* conservative, moderate or aggressive, and those of moderate for every other
\* value; it emits no other triple.
C14_RiskTripleOrModerate ==
    (pc = "response" /\ intent = "investment" /\ ~IsNone(user_profile)) =>
        /\ reply.raised = ""
        /\ Emits(reply.parts, TripleFor(The(user_profile).risk_tolerance))
        /\ \A t \in {ConservativeTriple, ModerateTriple, AggressiveTriple} :
              Emits(reply.parts, t) => t = TripleFor(The(user_profile).risk_tolerance)

\* an unrecognised value answered with the moderate triple
C14_Witness ==
    /\ pc = "response" /\ intent = "investment" /\ ~IsNone(user_profile)
    /\ The(user_profile).risk_tolerance = <<"r", "i", "s", "k", "y">>
    /\ Emits(reply.parts, ModerateTriple)

-----------------------------------------------------------------------------
(* Claims about the budgeting rule (SpecEngine) *)

\* the profile of the call
Prof == The(user_profile)

Has(parts, x) == \E k \in DOMAIN parts : parts[k] = x

TierLow ==
    Txt("Recommendation: Try to increase your savings rate to at least 10-15% of income.")
TierMid ==
    Txt("Recommendation: You're doing well! Consider pushing towards a 20% savings rate.")
TierTop ==
    Txt("Excellent! You're exceeding the recommended 20% savings rate.")
Remediation ==
    <<Txt("Immediate Actions"),
      Txt("1. Track every expense for 30 days"),
      Txt("2. Identify your top 3 expense categories"),
      Txt("3. Find ways to reduce spending by 10-15%")>>

\* twelve times the monthly surplus income/12 - monthly_expenses
YearlySurplus == Prof.income - 12 * Prof.monthly_expenses

\* the tier of the savings rate 100 * surplus / (income/12)
TierOfRate ==
    IF 100 * YearlySurplus < 10 * Prof.income THEN TierLow
    ELSE IF 100 * YearlySurplus < 20 * Prof.income THEN TierMid
    ELSE TierTop

BudgetingCall == pc = "response" /\ intent = "budgeting" /\ ~IsNone(user_profile)

\* C15: with surplus = income/12 - monthly_expenses > 0 the budgeting rule
\* reports the surplus and exactly one recommendation tier, the one of the
\* savings rate (below 10%, from 10% to below 20%, 20% or more); with
\* surplus <= 0 it reports the deficit and the fixed 3-step remediation list
\* and no tier.  The user-type tip block is the student block for a student,
\* the professional block for a professional and absent for a retiree.  For
\* income 60000, monthly_expenses 3000, user_type student: surplus 2000,
\* rate 40%, the top tier and the student block.
C15_BudgetingTiers ==
    BudgetingCall =>
        /\ reply.raised = ""
        /\ YearlySurplus > 0 =>
              /\ Has(reply.parts, Part("Great news! You have a monthly surplus of $",
                                       Money(Frac(YearlySurplus, 12)), <<>>))
              /\ \A t \in {TierLow, TierMid, TierTop} :
                    Has(reply.parts, t) <=> (t = TierOfRate)
              /\ \A k \in DOMAIN Remediation : ~Has(reply.parts, Remediation[k])
        /\ YearlySurplus <= 0 =>
              /\ Has(reply.parts, Part("You're spending $ more than you earn monthly.",
                                       Money(Frac(-YearlySurplus, 12)), <<>>))
              /\ \E k \in 1..(Len(reply.parts) - 3) :
                    SubSeq(reply.parts, k, k + 3) = Remediation
              /\ \A t \in {TierLow, TierMid, TierTop} : ~Has(reply.parts, t)
        /\ Has(reply.parts, Txt("Student-Specific Tips")) <=> (Prof.user_type = "student")
        /\ Has(reply.parts, Txt("Professional Tips")) <=> (Prof.user_type = "professional")
        /\ (Prof.income = 60000 /\ Prof.monthly_expenses = 3000
              /\ Prof.user_type = "student") =>
              /\ Has(reply.parts, Part("Great news! You have a monthly surplus of $",
                                       Num(2000), <<>>))
              /\ Has(reply.parts, Part("% savings rate", Num(40), <<>>))
              /\ Has(reply.parts, TierTop)
              /\ Has(reply.parts, Txt("Student-Specific Tips"))

\* the example of the claim
C15_Witness ==
    /\ BudgetingCall
    /\ Prof.income = 60000 /\ Prof.monthly_expenses = 3000 /\ Prof.user_type = "student"
    /\ Has(reply.parts, TierTop)

-----------------------------------------------------------------------------
(* SpecReport: generate_monthly_report called twice on the same profile and *)
(* ledger, with calls of the other operations, on any profile and ledger,   *)
(* in between.  report holds the result of the latest report call.          *)

ReportProfiles ==
    {UserProfile("Ann", 40, i, "Other", SubSeq(GoalOptions, 1, g), Risk_moderate,
                 900, e, "professional") :
        i \in {0, 36000}, e \in {0, 900}, g \in {0, 2}}

InitReport ==
    /\ user_profile \in {None} \cup {Some(p) : p \in ReportProfiles}
    /\ expenses \in EngineLedgers
    /\ messages = <<>>
    /\ last = NoLast
    /\ text = <<>>
    /\ remote = NoRemote
    /\ health = NoHealth
    /\ sentiment = NoSentiment
    /\ intent = ""
    /\ reply = NoReply
    /\ analysis = NoAnalysis
    /\ report = NoReport
    /\ pc = "start"

FirstReport ==
    /\ pc = "start"
    /\ report' = generate_monthly_report(user_profile, expenses)
    /\ pc' = "first"
    /\ UNCHANGED <<user_profile, expenses, messages, last, text, remote, health,
                   sentiment, intent, reply, analysis>>

\* a call of generate_financial_health_score on any profile and ledger
HealthBetween ==
    /\ pc \in {"first", "between"}
    /\ \E p \in ReportProfiles, l \in EngineLedgers :
          health' = generate_financial_health_score(Some(p), l)
    /\ pc' = "between"
    /\ UNCHANGED <<user_profile, expenses, messages, last, text, remote,
                   sentiment, intent, reply, analysis, report>>

\* a call of analyze_spending_pattern on any ledger
AnalyzeBetween ==
    /\ pc \in {"first", "between"}
    /\ \E l \in EngineLedgers : analysis' = analyze_spending_pattern(l)
    /\ pc' = "between"
    /\ UNCHANGED <<user_profile, expenses, messages, last, text, remote, health,
                   sentiment, intent, reply, report>>

\* a call of generate_personalized_response of the chatbot holding the profile
ResponseBetween ==
    /\ pc \in {"first", "between"}
    /\ \E i \in {"budgeting", "general"} :
          /\ intent' = i
          /\ reply' = generate_personalized_response(user_profile, text, i, "NEUTRAL")
    /\ pc' = "between"
    /\ UNCHANGED <<user_profile, expenses, messages, last, text, remote, health,
                   sentiment, analysis, report>>

SecondReport ==
    /\ pc \in {"first", "between"}
    /\ report' = generate_monthly_report(user_profile, expenses)
    /\ pc' = "second"
    /\ UNCHANGED <<user_profile, expenses, messages, last, text, remote, health,
                   sentiment, intent, reply, analysis>>

NextReport ==
    \/ FirstReport
    \/ HealthBetween
    \/ AnalyzeBetween
    \/ ResponseBetween
    \/ SecondReport

SpecReport == InitReport /\ [][NextReport]_vars

-----------------------------------------------------------------------------
(* Claims about the analyzer on an empty ledger (SpecEngine) *)

\* C17: analyze_spending_pattern called with an empty ledger raises nothing
\* and returns an empty result: no total, no highest or lowest category, no
\* percentages, no recommendations.
C17_EmptyLedgerEmptyResult ==
    (pc = "analysis" /\ expenses = <<>>) =>
        /\ analysis.raised = ""
        /\ analysis.empty
        /\ analysis.total_expenses = 0
        /\ analysis.highest_category = <<>> /\ analysis.lowest_category = <<>>
        /\ analysis.category_percentages = <<>>
        /\ analysis.recommendations = <<>>

C17_Witness ==
    pc = "analysis" /\ expenses = <<>> /\ analysis.empty

-----------------------------------------------------------------------------
(* Claims about the keyword fallback of analyze_sentiment (SpecSentiment) *)

\* the remote classifier gave no answer
Unavailable == remote.kind # "status_200"

\* how many of the words occur in the lower-cased text
WordsPresent(words) ==
    Cardinality({i \in DOMAIN words : Occurrences(Lower(text), words[i]) > 0})

Verdict(positive_count, negative_count) ==
    IF positive_count > negative_count THEN "POSITIVE"
    ELSE IF negative_count > positive_count THEN "NEGATIVE"
    ELSE "NEUTRAL"

\* C18 (as stated): with the remote classifier unavailable the text is
\* lower-cased, every occurrence of a positive and of a negative word is
\* counted, and the larger count decides (NEUTRAL when equal).
C18_EveryOccurrenceCounted ==
    (pc = "analyzed" /\ Unavailable) =>
        /\ sentiment.raised = ""
        /\ sentiment.value = Verdict(SumOccurrences(positive_words, Lower(text)),
                                     SumOccurrences(negative_words, Lower(text)))

\* C18 (amended): with the remote classifier unavailable the text is
\* lower-cased, the positive words and the negative words that occur in it
\* are counted, each word once however often it occurs, and the larger count
\* decides; NEUTRAL when the counts are equal, so for every text with no word
\* of either set.
C18_WordsPresentCounted ==
    (pc = "analyzed" /\ Unavailable) =>
        /\ sentiment.raised = ""
        /\ sentiment.value = Verdict(WordsPresent(positive_words),
                                     WordsPresent(negative_words))
        /\ (WordsPresent(positive_words) = 0 /\ WordsPresent(negative_words) = 0)
              => sentiment.value = "NEUTRAL"

\* "good GOODBAD": two occurrences of one positive word, one negative word
C18_Witness ==
    /\ pc = "analyzed" /\ remote.kind = "timeout"
    /\ Occurrences(Lower(text), positive_words[1]) = 2
    /\ WordsPresent(negative_words) = 1
    /\ sentiment.value = "NEUTRAL"

-----------------------------------------------------------------------------
(* Claims about the remote requests of a chat turn (Spec) *)

\* the last run handled a chat prompt
ChatRun == last.op \in {"chat", "chat_raised"}

\* C19: a run of main() issues at most one remote request, the one of its
\* analyze_sentiment call, and only in a chat turn; the request carries a
\* bounded timeout; when it times out or fails it is not repeated and the
\* call still returns a sentiment value.
C19_OneBoundedRequest ==
    /\ Len(sentiment.requests) <= 1
    /\ \A k \in DOMAIN sentiment.requests :
          sentiment.requests[k].timeout > 0 /\ sentiment.requests[k].timeout <= 30
    /\ ChatRun => Len(sentiment.requests) = 1
    /\ (ChatRun /\ remote.kind # "status_200") =>
          /\ sentiment.raised = ""
          /\ sentiment.value \in {"POSITIVE", "NEGATIVE", "NEUTRAL"}
          /\ last.op = "chat"

\* a chat turn whose request timed out
C19_Witness ==
    /\ last.op = "chat" /\ remote.kind = "timeout"
    /\ Len(sentiment.requests) = 1
    /\ sentiment.value = "NEGATIVE"

-----------------------------------------------------------------------------
(* Claims about the budget-management component (SpecScore) *)

\* expense_ratio = monthly_expenses / (income / 12), taken as 1 for income 0
Ratio == IF P.income > 0 THEN Frac(12 * P.monthly_expenses, P.income) ELSE Num(1)

\* C20: the budget-management sub-score is 0 for every expense ratio >= 1.05,
\* exactly 25 for every ratio <= 0.80 and between 0 and 25 for the ratios in
\* between; with monthly income 0 the ratio is taken as 1.
C20_BudgetScoreShape ==
    pc = "scored" =>
        /\ ExpenseRatio(P).value = Ratio
        /\ RGe(Ratio, Frac(105, 100)) => BudgetScore(P) = Num(0)
        /\ RLe(Ratio, Frac(80, 100)) => BudgetScore(P) = Num(25)
        /\ (RGt(Ratio, Frac(80, 100)) /\ RLt(Ratio, Frac(105, 100))) =>
              (RGe(BudgetScore(P), Num(0)) /\ RLe(BudgetScore(P), Num(25)))

-----------------------------------------------------------------------------
(* Claims about the savings rule (SpecEngine) *)

SavingsCall == pc = "response" /\ intent = "savings" /\ ~IsNone(user_profile)

\* target = monthly_expenses x 6 and the gap target - savings_amount
Target == 6 * Prof.monthly_expenses
Gap == Target - Prof.savings_amount

TopText == "Excellent! You have months of expenses covered."
MidText == "You're halfway there! Need $ more for full 6-month coverage."
LowText == "Emergency fund needs attention. Target: $"

HasText(parts, t) == \E k \in DOMAIN parts : parts[k].t = t

\* the tier of coverage = savings_amount / target, 0 when target is 0
TierText ==
    IF Target > 0 /\ Prof.savings_amount >= Target THEN TopText
    ELSE IF Target > 0 /\ 2 * Prof.savings_amount >= Target THEN MidText
    ELSE LowText

\* C21 (as stated): the savings rule emits exactly one of the three tier
\* messages, the one of coverage = savings_amount / target (0 when target is
\* 0), and in each of the two lower tiers the message states the dollar gap
\* target - savings_amount; with monthly_expenses = 0 the lowest tier is
\* reported.
C21_GapInBothLowerTiers ==
    SavingsCall =>
        /\ reply.raised = ""
        /\ \A t \in {TopText, MidText, LowText} : HasText(reply.parts, t) <=> (t = TierText)
        /\ TierText # TopText =>
              \E k \in DOMAIN reply.parts :
                  /\ reply.parts[k].t \in {MidText, LowText, "Current: $"}
                  /\ reply.parts[k].v = Money(Num(Gap))
        /\ Prof.monthly_expenses = 0 => TierText = LowText

\* C21 (amended): the savings rule emits exactly one of the three tier
\* messages, the one of coverage = savings_amount / target (0 when target is
\* 0); the middle tier states the dollar gap target - savings_amount, the
\* lowest tier states the target and the current savings_amount; with
\* monthly_expenses = 0 the lowest tier is reported whatever the
\* savings_amount.
C21_SavingsTiers ==
    SavingsCall =>
        /\ reply.raised = ""
        /\ \A t \in {TopText, MidText, LowText} : HasText(reply.parts, t) <=> (t = TierText)
        /\ TierText = MidText => Has(reply.parts, Part(MidText, Money(Num(Gap)), <<>>))
        /\ TierText = LowText =>
              \E k \in 1..(Len(reply.parts) - 1) :
                  /\ reply.parts[k] = Part(LowText, Money(Num(Target)), <<>>)
                  /\ reply.parts[k + 1] =
                        Part("Current: $", Money(Num(Prof.savings_amount)), <<>>)
        /\ HasText(reply.parts, "Current: $") <=> (TierText = LowText)
        /\ Prof.monthly_expenses = 0 => HasText(reply.parts, LowText)

\* the lowest tier for a profile with savings and no expenses
C21_Witness ==
    /\ SavingsCall
    /\ Prof.monthly_expenses = 0 /\ Prof.savings_amount > 0
    /\ HasText(reply.parts, LowText)

-----------------------------------------------------------------------------
(* Claims about the retirement rule (SpecEngine) *)

RetirementCall == pc = "response" /\ intent = "retirement" /\ ~IsNone(user_profile)

YearsToGo == IF 65 - Prof.age >= 0 THEN 65 - Prof.age ELSE 0

\* the estimated need: 80% of the income, 25 times (the 4% withdrawal rule)
Need == (Prof.income * 4 * 25) \div 5

TimelineText == "Retirement Timeline: years to go"
NeedText == "Estimated Need: $ (using 4% withdrawal rule)"
MonthlyTargetText == "Monthly Savings Target: $"
RetiredText == "Already at retirement age! Focus on:"

YoungBlock == "20s Advantage: Time is your biggest asset!"
PeakBlock == "Peak Earning Years: Accelerate savings"
PreRetirementBlock == "Pre-Retirement: Catch-up mode"

AgeBlock ==
    IF Prof.age < 30 THEN YoungBlock
    ELSE IF Prof.age < 50 THEN PeakBlock
    ELSE PreRetirementBlock

\* the position of the part with text t, 0 when there is none
PositionOf(parts, t) ==
    IF HasText(parts, t) THEN CHOOSE k \in DOMAIN parts : parts[k].t = t ELSE 0

\* C22: the retirement rule computes years_to_retirement = max(65 - age, 0);
\* for every age < 65 it reports the years, the estimated need and the
\* monthly target need / (years x 12) and raises no division by zero; for
\* every age >= 65 it emits the already-retired guidance instead and no need
\* and no target; after either it appends exactly one of the three strategy
\* blocks, the one of the age band (age < 30, 30 <= age < 50, age >= 50).
C22_RetirementRule ==
    RetirementCall =>
        /\ reply.raised = ""
        /\ Prof.age < 65 =>
              /\ YearsToGo > 0
              /\ Has(reply.parts, Part(TimelineText, Num(YearsToGo), <<>>))
              /\ Has(reply.parts, Part(NeedText, Money(Num(Need)), <<>>))
              /\ Has(reply.parts, Part(MonthlyTargetText,
                                       Money(Frac(Need, YearsToGo * 12)), <<>>))
              /\ ~HasText(reply.parts, RetiredText)
              /\ PositionOf(reply.parts, MonthlyTargetText)
                    < PositionOf(reply.parts, AgeBlock)
        /\ Prof.age >= 65 =>
              /\ YearsToGo = 0
              /\ HasText(reply.parts, RetiredText)
              /\ \A t \in {TimelineText, NeedText, MonthlyTargetText} :
                    ~HasText(reply.parts, t)
              /\ PositionOf(reply.parts, RetiredText)
                    < PositionOf(reply.parts, AgeBlock)
        /\ \A b \in {YoungBlock, PeakBlock, PreRetirementBlock} :
              /\ HasText(reply.parts, b) <=> (b = AgeBlock)
              /\ Cardinality({k \in DOMAIN reply.parts : reply.parts[k].t = b}) <= 1

\* the retirement rule for a profile of age 65: guidance and the
\* pre-retirement block, no target
C22_Witness ==
    /\ RetirementCall
    /\ Prof.age = 65
    /\ HasText(reply.parts, RetiredText)
    /\ HasText(reply.parts, PreRetirementBlock)

-----------------------------------------------------------------------------
(* Claims about the general rule (SpecEngine) *)

GeneralCall == pc = "response" /\ intent = "general" /\ ~IsNone(user_profile)

ScoreText == "Your Financial Health Score: /100"
GapText == "1. Build Emergency Fund: Save $ more"
GapMonthlyText == "$/month for 6 months"
FundCompleteText == "1. Emergency Fund Complete: Well done!"
DebtText == "2. Eliminate High-Interest Debt: Pay off credit cards and personal loans first"
RetirementItemText == "3. Retirement Savings: Aim for 10-15% of income in retirement accounts"
GrowthText == "4. Investment Growth: With $ monthly surplus, consider diversified investing"

Grades == {"A", "B", "C", "D", "F"}

ChecklistTexts ==
    {ScoreText, GapText, GapMonthlyText, FundCompleteText, DebtText,
     RetirementItemText, GrowthText} \cup Grades

InChecklist(x) == x.t \in ChecklistTexts

\* the score, the grade and the checklist items the profile calls for, in order
ExpectedChecklist ==
    LET hs == generate_financial_health_score(user_profile, <<>>)
    IN  <<Part(ScoreText, hs.score, <<>>), Txt(hs.grade)>>
        \o (IF Prof.savings_amount < 6 * Prof.monthly_expenses
            THEN <<Part(GapText, Money(Num(Gap)), <<>>),
                   Part(GapMonthlyText, Money(Frac(Gap, 6)), <<>>)>>
            ELSE <<Txt(FundCompleteText)>>)
        \o <<Txt(DebtText)>>
        \o (IF Prof.age < 65 THEN <<Txt(RetirementItemText)>> ELSE <<>>)
        \o (IF Prof.income > 12 * Prof.monthly_expenses
            THEN <<Part(GrowthText,
                        Money(Frac(Prof.income - 12 * Prof.monthly_expenses, 12)), <<>>)>>
            ELSE <<>>)

\* C23: the general rule reports the health score and the grade computed
\* from the profile, then the checklist in this order: the emergency-fund
\* gap exactly when savings_amount < 6 x monthly_expenses, the
\* high-interest-debt item always, the retirement-savings item exactly when
\* age < 65, the investment-growth item exactly when
\* income/12 - monthly_expenses > 0.
C23_GeneralChecklist ==
    GeneralCall =>
        /\ reply.raised = ""
        /\ SelectSeq(reply.parts, InChecklist) = ExpectedChecklist
        /\ HasText(reply.parts, GapText)
              <=> Prof.savings_amount < 6 * Prof.monthly_expenses
        /\ HasText(reply.parts, DebtText)
        /\ HasText(reply.parts, RetirementItemText) <=> Prof.age < 65
        /\ HasText(reply.parts, GrowthText)
              <=> Prof.income > 12 * Prof.monthly_expenses

\* the general rule for a profile that calls for all four items
C23_Witness ==
    /\ GeneralCall
    /\ Prof.savings_amount < 6 * Prof.monthly_expenses
    /\ Prof.age = 64
    /\ Prof.income > 12 * Prof.monthly_expenses
    /\ HasText(reply.parts, GapText) /\ HasText(reply.parts, DebtText)
    /\ HasText(reply.parts, RetirementItemText) /\ HasText(reply.parts, GrowthText)

-----------------------------------------------------------------------------
(* Claims about the composition of a response (SpecEngine) *)

ProfiledCall == pc = "response" /\ ~IsNone(user_profile)

EmpathyLine ==
    Txt("I understand you might be feeling stressed about your finances. Take it one step at a time - small improvements add up!")
EncouragementLine ==
    Txt("Great to see your positive attitude about finances! Let's build on that momentum.")

SentimentLine ==
    IF sentiment.value = "NEGATIVE" THEN <<EmpathyLine>>
    ELSE IF sentiment.value = "POSITIVE" THEN <<EncouragementLine>>
    ELSE <<>>

FramingLine ==
    IF Prof.user_type = "student"
    THEN Txt("As a student, focus on building good financial habits now - they'll serve you well throughout your career.")
    ELSE IF Prof.user_type = "professional"
    THEN Txt("With your professional status, you're in a great position to accelerate your financial goals.")
    ELSE Txt("In retirement, focus on preservation and sustainable income strategies.")

\* the base advice of the rule of the intent
BaseAdvice == _get_intent_specific_advice(Prof, intent).parts

\* the tip of the intent, the general one for an intent outside the table
TipOfIntent == Txt(tips(IF intent \in Intents THEN intent ELSE "general"))

\* C24: with a profile set, every response is composed in this order: the
\* sentiment line (present exactly when the sentiment is exactly POSITIVE or
\* exactly NEGATIVE, absent for NEUTRAL), the user-type framing line (one
\* fixed line for each of student, professional, retiree), the base advice
\* of the intent's rule, and the contextual tip of the intent as the last
\* element.
C24_CompositionOrder ==
    ProfiledCall =>
        /\ reply.raised = ""
        /\ Prof.user_type \in {"student", "professional", "retiree"}
        /\ reply.parts = SentimentLine \o <<FramingLine>> \o BaseAdvice
                         \o <<Part("Quick Tip", Num(0), <<>>), TipOfIntent>>
        /\ (Has(reply.parts, EmpathyLine) \/ Has(reply.parts, EncouragementLine))
              <=> sentiment.value \in {"POSITIVE", "NEGATIVE"}
        /\ sentiment.value = "NEUTRAL" => reply.parts[1] = FramingLine
        /\ reply.parts[Len(reply.parts)] = TipOfIntent

\* a response to a student with sentiment NEGATIVE: empathy line, student
\* line, retirement advice, retirement tip
C24_Witness ==
    /\ ProfiledCall
    /\ sentiment.value = "NEGATIVE" /\ Prof.user_type = "student"
    /\ intent = "retirement"
    /\ reply.parts[1] = EmpathyLine /\ reply.parts[2] = FramingLine
    /\ reply.parts[3] = Txt("Retirement Planning")
    /\ reply.parts[Len(reply.parts)] = Txt(tips("retirement"))

-----------------------------------------------------------------------------
(* SpecCalls: generate_personalized_response called again and again on the  *)
(* same chatbot with the intent and sentiment of the first call and any raw *)
(* user text, while the session adds turns to the conversation and changes  *)
(* the ledger in between.  reply holds the result of the latest call.       *)

CallTexts ==
    {<<>>, <<"h", "i">>, <<"s", "a", "v", "e", " ", "t", "a", "x">>}

InitCalls ==
    /\ user_profile \in {None} \cup {Some(p) : p \in ReportProfiles}
    /\ expenses \in EngineLedgers
    /\ messages = <<>>
    /\ last = NoLast
    /\ text = <<>>
    /\ remote = NoRemote
    /\ health = NoHealth
    /\ sentiment = NoSentiment
    /\ intent = ""
    /\ reply = NoReply
    /\ analysis = NoAnalysis
    /\ report = NoReport
    /\ pc = "start"

FirstResponse ==
    /\ pc = "start"
    /\ \E t \in CallTexts, i \in EngineIntents, sent \in EngineSentiments :
          /\ text' = t
          /\ intent' = i
          /\ sentiment' = [NoSentiment EXCEPT !.value = sent]
          /\ reply' = generate_personalized_response(user_profile, t, i, sent)
    /\ pc' = "first"
    /\ UNCHANGED <<user_profile, expenses, messages, last, remote, health,
                   analysis, report>>

\* the session appends an exchange to the conversation
HistoryBetween ==
    /\ pc \in {"first", "between", "again"}
    /\ Len(messages) < 2 * MaxTurns
    /\ \E t \in CallTexts :
          messages' = messages \o <<Message("user", <<Part("", Num(0), t)>>),
                                    Message("assistant", <<_get_onboarding_message>>)>>
    /\ pc' = "between"
    /\ UNCHANGED <<user_profile, expenses, last, text, remote, health, sentiment,
                   intent, reply, analysis, report>>

\* the session adds to the ledger or clears it
LedgerBetween ==
    /\ pc \in {"first", "between", "again"}
    /\ \E l \in EngineLedgers : l # expenses /\ expenses' = l
    /\ pc' = "between"
    /\ UNCHANGED <<user_profile, messages, last, text, remote, health, sentiment,
                   intent, reply, analysis, report>>

\* variant: the call records its answer in the conversation
RepeatResponse_RecordsAnswer ==
    /\ pc \in {"first", "between", "again"}
    /\ \E t \in CallTexts :
          /\ text' = t
          /\ reply' = generate_personalized_response(user_profile, t, intent,
                                                     sentiment.value)
    /\ messages' = Append(messages, Message("assistant", reply'.parts))
    /\ pc' = "again"
    /\ UNCHANGED <<user_profile, expenses, last, remote, health, sentiment,
                   intent, analysis, report>>

\* one more call with the intent and the sentiment of the first
RepeatResponse ==
    /\ pc \in {"first", "between", "again"}
    /\ \E t \in CallTexts :
          /\ text' = t
          /\ reply' = generate_personalized_response(user_profile, t, intent,
                                                     sentiment.value)
    /\ pc' = "again"
    /\ UNCHANGED <<user_profile, expenses, messages, last, remote, health,
                   sentiment, intent, analysis, report>>

NextCalls ==
    \/ FirstResponse
    \/ HistoryBetween
    \/ LedgerBetween
    \/ RepeatResponse

SpecCalls == InitCalls /\ [][NextCalls]_vars

\* a step that is a call of generate_personalized_response
CallStep == pc' \in {"first", "again"}

-----------------------------------------------------------------------------
(* Claims about the conversation of the session (Spec) *)

\* C26: the conversation is append-only and each submitted prompt appends one
\* user turn immediately followed by one assistant turn: after every
\* completed chat turn the transcript has even length and strictly
\* alternates user, assistant, starting with user.
C26_ConversationAlternates ==
    last.op = "chat" =>
        /\ Len(messages) % 2 = 0
        /\ \A k \in DOMAIN messages :
              messages[k].role = (IF k % 2 = 1 THEN "user" ELSE "assistant")

\* the action a step of the session ran, by the outcome it recorded
ProfileStep == last'.op \in {"saved", "rejected", "missing_fields", "edit"}
LedgerFormStep == last'.op \in {"added", "add_ignored", "cleared"}
ChatStep == last'.op \in {"chat", "chat_raised"}

\* C27: session actions change only their own piece of state: Save Profile
\* and Edit Profile leave the ledger and the conversation unchanged,
\* add-expense and clear leave the profile and the conversation unchanged, a
\* chat turn leaves the profile and the ledger unchanged; an add-expense
\* submission with amount 0 leaves the ledger unchanged.
C27_FrameOfSessionActions ==
    [][/\ ProfileStep => UNCHANGED <<expenses, messages>>
       /\ LedgerFormStep => UNCHANGED <<user_profile, messages>>
       /\ ChatStep => UNCHANGED <<user_profile, expenses>>
       /\ last'.op = "add_ignored" => UNCHANGED expenses]_vars

\* an add-expense submission with amount 0 in a session that has a profile,
\* a ledger and a conversation
C27_Witness ==
    /\ last.op = "add_ignored"
    /\ ~IsNone(user_profile)
    /\ expenses # <<>>
    /\ messages # <<>>

-----------------------------------------------------------------------------
(* Claims about intents outside the table (SpecEngine) *)

UnknownIntentCall == ProfiledCall /\ intent \notin Intents

GeneralTip ==
    Txt("Track your net worth monthly - it's the best single metric of financial progress.")

\* C28: with a profile set, for an intent outside the 8 known intents
\* generate_personalized_response produces exactly the response it produces
\* for the intent general with the same profile and sentiment: the general
\* rule's advice and the general contextual tip.
C28_UnknownIntentIsGeneral ==
    UnknownIntentCall =>
        /\ reply = generate_personalized_response(user_profile, text, "general",
                                                  sentiment.value)
        /\ reply.raised = ""
        /\ reply.parts = SentimentLine \o <<FramingLine>>
                         \o _get_general_advice(Prof).parts
                         \o <<Part("Quick Tip", Num(0), <<>>), GeneralTip>>
        /\ Has(reply.parts, Txt("General Financial Guidance"))

\* the response to the intent Budgeting, which the table spells budgeting
C28_Witness ==
    /\ UnknownIntentCall
    /\ intent = "Budgeting"
    /\ Has(reply.parts, Txt("General Financial Guidance"))
    /\ reply.parts[Len(reply.parts)] = GeneralTip

-----------------------------------------------------------------------------
(* Claims about the feedback of the health score (SpecEngine) *)

SavingsRateMessages ==
    {"Great savings rate!",
     "Good savings rate, try to increase if possible",
     "Focus on increasing your savings rate"}

GoalMessages ==
    {"You have N financial goals defined",
     "Consider setting specific financial goals"}

\* C29: for every profile generate_financial_health_score returns exactly
\* three feedback strings, in the order emergency fund, savings rate, goals
\* (the budget-management component emits none); for an absent profile it
\* returns score 0, grade F and an empty feedback list.
C29_ThreeFeedbackStrings ==
    pc = "health" =>
        /\ health.raised = ""
        /\ ~IsNone(user_profile) =>
              /\ Len(health.feedback) = 3
              /\ health.feedback[1] \in EmergencyMessages
              /\ health.feedback[2] \in SavingsRateMessages
              /\ health.feedback[3] \in GoalMessages
              /\ health.feedback[3] = "You have N financial goals defined"
                    <=> Prof.financial_goals # <<>>
        /\ IsNone(user_profile) =>
              /\ health.score = Num(0)
              /\ health.grade = "F"
              /\ health.feedback = <<>>

\* the feedback for a profile with goals and a deficit
C29_Witness ==
    /\ pc = "health"
    /\ ~IsNone(user_profile)
    /\ Prof.financial_goals # <<>>
    /\ Prof.income < 12 * Prof.monthly_expenses
    /\ health.feedback = <<"Build your emergency fund (aim for 6 months of expenses)",
                           "Focus on increasing your savings rate",
                           "You have N financial goals defined">>

-----------------------------------------------------------------------------
(* Claims about the ledger of the session (Spec) *)

\* C30: after any sequence of add-expense and clear actions every amount
\* stored in the ledger is strictly positive, so a non-empty ledger has a
\* strictly positive total and the Analyze and Report actions, which divide
\* by the total, raise no division by zero.
C30_LedgerAmountsPositive ==
    /\ \A k \in DOMAIN expenses : expenses[k].amount > 0
    /\ expenses # <<>> => SumAmounts(expenses) > 0
    /\ analysis.raised # "ZeroDivisionError"
    /\ report.raised # "ZeroDivisionError"
    /\ last.op \notin {"analyze_raised", "report_raised"}

\* a report made from a ledger of two categories
C30_Witness ==
    /\ last.op = "reported"
    /\ Len(expenses) = 2
    /\ SumAmounts(expenses) > 0
    /\ report.raised = ""

====
